---- MODULE Spec2Model ----
(***************************************************************************)
(* A model of the ESS-DIVE MCP server (src/src/essdive_mcp/main.py): the   *)
(* DOI normalizer, the field sanitizer, the FLMD parser, the multi-page    *)
(* field-index search loop, the tool functions' exception boundary, the    *)
(* credential lookup, the API client's requests, the result formatter and  *)
(* the DOI / dataset-id conversions.                                       *)
(*                                                                         *)
(* Strings are sequences of one-character strings, so that prefix tests,   *)
(* replacement, trimming and whitespace collapsing are computed character  *)
(* by character, as Python computes them.                                  *)
(***************************************************************************)
EXTENDS Integers, Sequences, FiniteSets, TLC

VARIABLES
    \* _normalize_doi
    doi_pc, doi_form, doi_body, identifier, normalized, renormalized,
    \* sanitize_tsv_field
    san_pc, san_value, san_out, san_out2,
    \* parse_flmd_file
    flmd_pc, fieldnames, flmd_remaining, filename_col, description_col,
    filename, description, file_descriptions, flmd_rows_read, flmd_raised,
    flmd_result, flmd_row,
    \* search_ess_deepdive_tool
    pg_pc, max_pages, row_start, page_size, current_row, pages_fetched,
    all_results, pg_requests, pg_pages, pg_return,
    \* the tool functions registered by main()
    tool_pc, tool, tool_step, tool_exc, tool_result,
    \* get_api_key
    key_pc, api_key, token_file, env_token, key_result,
    \* the API client's calls
    cl_pc, cl_token, cl_op, cl_args, cl_requests, cl_result,
    \* ESSDiveClient.format_results
    fmt_pc, fmt_results, format_type, fmt_out,
    \* doi_to_essdive_id and essdive_id_to_doi
    cv_pc, cv_op, cv_arg, cv_lookup, cv_response, cv_result,
    \* the search-datasets tool: position, arguments, the client call, the GETs sent, what is returned
    sd_pc, sd_args, sd_call, sd_requests, sd_result,
    \* two concurrent tool invocations: positions, arguments, the client's credential, the locals, requests, responses and returns of each
    cc_pc, cc_args, cc_token, cc_headers, cc_current_row, cc_pages_fetched, cc_all_results, cc_requests, cc_pages, cc_raised, cc_return, cc_overlapped

doiVars == <<doi_pc, doi_form, doi_body, identifier, normalized, renormalized>>
sanVars == <<san_pc, san_value, san_out, san_out2>>
flmdVars == <<flmd_pc, fieldnames, flmd_remaining, filename_col, description_col,
              filename, description, file_descriptions, flmd_rows_read,
              flmd_raised, flmd_result, flmd_row>>
pgVars == <<pg_pc, max_pages, row_start, page_size, current_row, pages_fetched,
            all_results, pg_requests, pg_pages, pg_return>>
toolVars == <<tool_pc, tool, tool_step, tool_exc, tool_result>>
keyVars == <<key_pc, api_key, token_file, env_token, key_result>>
clVars == <<cl_pc, cl_token, cl_op, cl_args, cl_requests, cl_result>>
fmtVars == <<fmt_pc, fmt_results, format_type, fmt_out>>
cvVars == <<cv_pc, cv_op, cv_arg, cv_lookup, cv_response, cv_result>>
sdVars == <<sd_pc, sd_args, sd_call, sd_requests, sd_result>>
ccVars == <<cc_pc, cc_args, cc_token, cc_headers, cc_current_row, cc_pages_fetched, cc_all_results, cc_requests, cc_pages, cc_raised, cc_return, cc_overlapped>>
vars == <<doiVars, sanVars, flmdVars, pgVars, toolVars, keyVars, clVars, fmtVars, cvVars, sdVars, ccVars>>

(***************************************************************************)
(* Bounds of the model.                                                    *)
(***************************************************************************)
\* Longest run of whitespace put before and after a DOI input.
MaxPad == 2
\* Largest number of chunks a DOI body is built from.
MaxChunks == 3
\* Longest string handed to sanitize_tsv_field.
MaxLen == 5
\* Largest absolute value of a number handed to sanitize_tsv_field.
MaxNum == 123
\* Largest number of records that follow the header row of an FLMD file.
MaxRows == 3
\* Largest max_pages the search tool is called with.
MaxPages == 3

(***************************************************************************)
(* Python's str operations, on sequences of characters.                    *)
(***************************************************************************)
\* The characters str.strip() and the regular expression \s treat as whitespace.
WsChars == {" ", "\t", "\n", "\r", "\f"}

IsWs(c) == c \in WsChars

RECURSIVE lstrip(_)
lstrip(s) == IF s # <<>> /\ IsWs(Head(s)) THEN lstrip(Tail(s)) ELSE s

RECURSIVE rstrip(_)
rstrip(s) ==
    IF s # <<>> /\ IsWs(s[Len(s)]) THEN rstrip(SubSeq(s, 1, Len(s) - 1)) ELSE s

\* str.strip()
strip(s) == rstrip(lstrip(s))

\* str.startswith(p)
startswith(s, p) == Len(s) >= Len(p) /\ SubSeq(s, 1, Len(p)) = p

\* str.replace(old, new): every non-overlapping occurrence of old, scanning
\* from the left, is replaced (old is never empty here).
RECURSIVE replace(_, _, _)
replace(s, old, new) ==
    IF s = <<>> THEN <<>>
    ELSE IF startswith(s, old)
         THEN new \o replace(SubSeq(s, Len(old) + 1, Len(s)), old, new)
         ELSE <<Head(s)>> \o replace(Tail(s), old, new)

\* str.replace(old, new) for a one-character old, as a map over the characters.
replace_char(s, old, new) == [i \in 1..Len(s) |-> IF s[i] = old THEN new ELSE s[i]]

\* The concatenation of a sequence of strings.
RECURSIVE Flatten(_)
Flatten(ss) == IF ss = <<>> THEN <<>> ELSE Head(ss) \o Flatten(Tail(ss))

\* All sequences over S of length at most n.
SeqsUpTo(S, n) == UNION {[1..k -> S] : k \in 0..n}

(***************************************************************************)
(* _normalize_doi                                                          *)
(***************************************************************************)
HttpsDoiOrg == <<"h","t","t","p","s",":","/","/","d","o","i",".","o","r","g","/">>
HttpDoiOrg == <<"h","t","t","p",":","/","/","d","o","i",".","o","r","g","/">>
DoiOrg == <<"d","o","i",".","o","r","g","/">>
DoiColon == <<"d","o","i",":">>

_normalize_doi(id) ==
    LET s == strip(id)
        t == IF startswith(s, HttpsDoiOrg) THEN replace(s, HttpsDoiOrg, <<>>)
             ELSE IF startswith(s, HttpDoiOrg) THEN replace(s, HttpDoiOrg, <<>>)
             ELSE IF startswith(s, DoiOrg) THEN replace(s, DoiOrg, <<>>)
             ELSE s
    IN IF ~startswith(t, DoiColon) THEN DoiColon \o t ELSE t

\* The five textual forms a DOI is given in: bare, doi:, and the three URL forms.
DoiForms == {<<>>, DoiColon, HttpsDoiOrg, HttpDoiOrg, DoiOrg}

\* The pieces DOI bodies are built from.
DoiChunks == {<<"1","0",".","1">>, <<"/","a">>, <<" ">>, DoiOrg, HttpsDoiOrg, DoiColon}

\* Whitespace around an input: up to MaxPad copies of one whitespace character.
DoiPads == {[i \in 1..n |-> c] : n \in 0..MaxPad, c \in {" ", "\t", "\n"}}

\* A DOI suffix 10.X: it starts with "10." and has no whitespace at its end.
IsDoiSuffix(b) ==
    /\ startswith(b, <<"1","0",".">>)
    /\ ~IsWs(b[Len(b)])

DoiInit ==
    /\ doi_pc = "start"
    /\ doi_form \in DoiForms
    /\ \E cs \in SeqsUpTo(DoiChunks, MaxChunks) : doi_body = Flatten(cs)
    /\ \E l \in DoiPads, r \in DoiPads : identifier = l \o doi_form \o doi_body \o r
    /\ normalized = <<>>
    /\ renormalized = <<>>

\* One call of _normalize_doi on the input.
Normalize ==
    /\ doi_pc = "start"
    /\ normalized' = _normalize_doi(identifier)
    /\ doi_pc' = "normalized"
    /\ UNCHANGED <<doi_form, doi_body, identifier, renormalized, sanVars, flmdVars, pgVars, toolVars, keyVars, clVars, fmtVars, cvVars, sdVars, ccVars>>

\* A second call, on the result of the first.
Renormalize ==
    /\ doi_pc = "normalized"
    /\ renormalized' = _normalize_doi(normalized)
    /\ doi_pc' = "done"
    /\ UNCHANGED <<doi_form, doi_body, identifier, normalized, sanVars, flmdVars, pgVars, toolVars, keyVars, clVars, fmtVars, cvVars, sdVars, ccVars>>

(***************************************************************************)
(* sanitize_tsv_field                                                      *)
(***************************************************************************)
\* str(n) of an integer: its decimal digits, after a minus sign when negative.
Digit(d) == <<"0","1","2","3","4","5","6","7","8","9">>[d + 1]

RECURSIVE str_nat(_)
str_nat(n) == IF n < 10 THEN <<Digit(n)>> ELSE str_nat(n \div 10) \o <<Digit(n % 10)>>

str_int(n) == IF n < 0 THEN <<"-">> \o str_nat(-n) ELSE str_nat(n)

\* Faulty variant: two whitespace characters at a time become one space.
RECURSIVE collapse_pairs(_)
collapse_pairs(s) ==
    IF s = <<>> THEN <<>>
    ELSE IF Len(s) >= 2 /\ IsWs(s[1]) /\ IsWs(s[2]) THEN <<" ">> \o collapse_pairs(Tail(Tail(s)))
    ELSE <<Head(s)>> \o collapse_pairs(Tail(s))

\* re.sub(r"\s+", " ", s): every maximal run of whitespace becomes one space.
RECURSIVE collapse_ws(_)
collapse_ws(s) ==
    IF s = <<>> THEN <<>>
    ELSE IF IsWs(Head(s)) THEN <<" ">> \o collapse_ws(lstrip(s))
    ELSE <<Head(s)>> \o collapse_ws(Tail(s))

\* Faulty variant: the whitespace runs are not collapsed.
sanitize_no_collapse(value) ==
    IF value.kind = "none" THEN <<>>
    ELSE LET v == IF value.kind # "str" THEN str_int(value.n) ELSE value.s
             r == replace_char(replace_char(replace_char(v, "\r", " "), "\n", " "), "\t", " ")
         IN strip(r)

sanitize_tsv_field(value) ==
    IF value.kind = "none" THEN <<>>
    ELSE LET v == IF value.kind # "str" THEN str_int(value.n) ELSE value.s
             r == replace_char(replace_char(replace_char(v, "\r", " "), "\n", " "), "\t", " ")
         IN strip(collapse_ws(r))

\* The characters the sanitizer's inputs are written in.
SanChars == {"a", "b", " ", "\t", "\n", "\r", "\f"}

\* The values handed to the sanitizer: None, a string, a number.
SanValues ==
    {[kind |-> "none"]}
    \cup {[kind |-> "str", s |-> s] : s \in SeqsUpTo(SanChars, MaxLen)}
    \cup {[kind |-> "int", n |-> n] : n \in (-MaxNum)..MaxNum}

SanInit ==
    /\ san_pc = "start"
    /\ san_value \in SanValues
    /\ san_out = <<>>
    /\ san_out2 = <<>>

\* One call of sanitize_tsv_field.
Sanitize ==
    /\ san_pc = "start"
    /\ san_out' = sanitize_tsv_field(san_value)
    /\ san_pc' = "sanitized"
    /\ UNCHANGED <<san_value, san_out2, doiVars, flmdVars, pgVars, toolVars, keyVars, clVars, fmtVars, cvVars, sdVars, ccVars>>

\* A second call, on the result of the first.
Resanitize ==
    /\ san_pc = "sanitized"
    /\ san_out2' = sanitize_tsv_field([kind |-> "str", s |-> san_out])
    /\ san_pc' = "done"
    /\ UNCHANGED <<san_value, san_out, doiVars, flmdVars, pgVars, toolVars, keyVars, clVars, fmtVars, cvVars, sdVars, ccVars>>

SanNext == Sanitize \/ Resanitize

(***************************************************************************)
(* parse_flmd_file                                                         *)
(*                                                                         *)
(* csv.DictReader is the library boundary: the model starts from the       *)
(* records csv.reader yields (a list of cells per line, [] for a blank     *)
(* line, or csv.Error raised), the header record being fixed at the start  *)
(* and each later record being read when the loop asks for it.             *)
(***************************************************************************)
\* Python's None, where a string is expected: no string holds this element.
None == <<"None">>

UpperCase == <<"A","B","C","D","E","F","G","H","I","J","K","L","M",
               "N","O","P","Q","R","S","T","U","V","W","X","Y","Z">>
LowerCase == <<"a","b","c","d","e","f","g","h","i","j","k","l","m",
               "n","o","p","q","r","s","t","u","v","w","x","y","z">>
Digits == {"0","1","2","3","4","5","6","7","8","9"}

\* str.lower(), character by character.
lower(s) ==
    [i \in 1..Len(s) |->
        IF \E k \in 1..26 : UpperCase[k] = s[i]
        THEN LowerCase[CHOOSE k \in 1..26 : UpperCase[k] = s[i]]
        ELSE s[i]]

\* re.sub(r"[^a-z0-9]", "", s)
RECURSIVE keep_alnum(_)
keep_alnum(s) ==
    IF s = <<>> THEN <<>>
    ELSE IF (\E k \in 1..26 : LowerCase[k] = Head(s)) \/ Head(s) \in Digits
         THEN <<Head(s)>> \o keep_alnum(Tail(s))
         ELSE keep_alnum(Tail(s))

_norm_header_key(h) == keep_alnum(lower(h))

\* The lists the normalized header is looked up in.
FilenameKeys ==
    {<<"f","i","l","e","n","a","m","e">>,
     <<"f","i","l","e","_","n","a","m","e">>,
     <<"n","a","m","e">>}
DescriptionKeys ==
    {<<"f","i","l","e","d","e","s","c","r","i","p","t","i","o","n">>,
     <<"f","i","l","e","_","d","e","s","c","r","i","p","t","i","o","n">>,
     <<"d","e","s","c","r","i","p","t","i","o","n">>}

\* Faulty variant: a column once found is kept.
RECURSIVE find_cols_first(_, _, _)
find_cols_first(fields, fc, dc) ==
    IF fields = <<>> THEN [filename_col |-> fc, description_col |-> dc]
    ELSE LET field == Head(fields)
             norm_field == _norm_header_key(field)
         IN IF norm_field \in FilenameKeys
            THEN find_cols_first(Tail(fields), IF fc = None THEN field ELSE fc, dc)
            ELSE IF norm_field \in DescriptionKeys
            THEN find_cols_first(Tail(fields), fc, IF dc = None THEN field ELSE dc)
            ELSE find_cols_first(Tail(fields), fc, dc)

\* The loop over reader.fieldnames: each matching header overwrites the column
\* found so far.
RECURSIVE find_cols(_, _, _)
find_cols(fields, fc, dc) ==
    IF fields = <<>> THEN [filename_col |-> fc, description_col |-> dc]
    ELSE LET field == Head(fields)
             norm_field == _norm_header_key(field)
         IN IF norm_field \in FilenameKeys THEN find_cols(Tail(fields), field, dc)
            ELSE IF norm_field \in DescriptionKeys THEN find_cols(Tail(fields), fc, field)
            ELSE find_cols(Tail(fields), fc, dc)

\* Faulty variant: the parse goes on unless both columns are missing.
missing_cols_both(fc, dc) == (fc = None \/ fc = <<>>) /\ (dc = None \/ dc = <<>>)

\* not filename_col or not description_col
missing_cols(fc, dc) == (fc = None \/ fc = <<>>) \/ (dc = None \/ dc = <<>>)

\* row.get(col, "") on the dict DictReader builds: dict(zip(fieldnames, row)),
\* then every field past the end of a short row set to None; a later field of
\* the same name overwrites an earlier one.
row_get(fields, row, col) ==
    LET idx == {i \in 1..Len(fields) : fields[i] = col}
        last == CHOOSE i \in idx : \A j \in idx : j <= i
    IN IF idx = {} THEN <<>>
       ELSE IF last <= Len(row) THEN row[last]
       ELSE None

\* file_descriptions[filename] = value, on a dict held as a set of pairs.
dict_set(d, k, v) == {p \in d : p[1] # k} \cup {<<k, v>>}

\* Faulty variant: only the filename is tested.
put_row_any_description(fd, fname, desc) ==
    IF fname # <<>> THEN dict_set(fd, fname, sanitize_tsv_field([kind |-> "str", s |-> desc]))
    ELSE fd

\* if filename and description: file_descriptions[filename] = sanitize(description)
put_row(fd, fname, desc) ==
    IF fname # <<>> /\ desc # <<>>
    THEN dict_set(fd, fname, sanitize_tsv_field([kind |-> "str", s |-> desc]))
    ELSE fd

\* Faulty variant: the parse error is not swallowed.
on_exception_raise(fd) == [kind |-> "raise", value |-> {}]

\* except Exception: pass, then return file_descriptions
on_exception(fd) == [kind |-> "mapping", value |-> fd]

\* return file_descriptions
on_return(fd) == [kind |-> "mapping", value |-> fd]

\* The header rows the parser is run on.
FlmdHeaders ==
    {<<>>,
     << <<"f","i","l","e","n","a","m","e">>, <<"d","e","s","c","r","i","p","t","i","o","n">> >>,
     << <<"F","i","l","e"," ","N","a","m","e">>, <<"F","i","l","e","-","D","e","s","c","r","i","p","t","i","o","n">> >>,
     << <<"d","e","s","c","r","i","p","t","i","o","n">>, <<"f","i","l","e","_","n","a","m","e">> >>,
     << <<"n","a","m","e">>, <<"o","t","h","e","r","_","c","o","l","u","m","n">> >>,
     << <<"o","t","h","e","r">>, <<"D","e","s","c","r","i","p","t","i","o","n">> >>,
     << <<"o","t","h","e","r">> >>,
     << <<"n","a","m","e">>, <<"d","e","s","c","r","i","p","t","i","o","n">>, <<"F","i","l","e","N","a","m","e">> >>,
     << <<"n","a","m","e">>, <<"d","e","s","c","r","i","p","t","i","o","n">>, <<"n","a","m","e">> >>}

\* The cells of the data rows.
FlmdCells == {<<>>, <<" ">>, <<" ","f"," ">>, <<"x","\t","\n","y">>}

\* What reading one more line gives: a row of cells (one cell more than the
\* header at most), or csv.Error.
FlmdRecords(fields) ==
    {[kind |-> "error", cells |-> <<>>]}
    \cup {[kind |-> "row", cells |-> c] : c \in SeqsUpTo(FlmdCells, Len(fields) + 1)}

FlmdInit ==
    /\ flmd_pc = "start"
    /\ \/ /\ fieldnames \in {[kind |-> "eof", cells |-> <<>>], [kind |-> "error", cells |-> <<>>]}
          /\ flmd_remaining = 0
       \/ /\ \E h \in FlmdHeaders : fieldnames = [kind |-> "row", cells |-> h]
          /\ flmd_remaining \in 0..MaxRows
    /\ filename_col = None
    /\ description_col = None
    /\ filename = None
    /\ description = None
    /\ file_descriptions = {}
    /\ flmd_rows_read = 0
    /\ flmd_raised = FALSE
    /\ flmd_result = [kind |-> "pending", value |-> {}]
    /\ flmd_row = [kind |-> "none", cells |-> <<>>]

\* Lines 87-105: the reader is built, the header row read and the two columns
\* looked up; the function returns at once without them.
FlmdOpen ==
    /\ flmd_pc = "start"
    /\ IF fieldnames.kind = "error"
       THEN /\ flmd_raised' = TRUE
            /\ flmd_pc' = "done"
            /\ flmd_result' = on_exception(file_descriptions)
            /\ UNCHANGED <<filename_col, description_col>>
       ELSE IF fieldnames.kind = "eof" \/ fieldnames.cells = <<>>
       THEN /\ flmd_pc' = "done"
            /\ flmd_result' = on_return(file_descriptions)
            /\ UNCHANGED <<filename_col, description_col, flmd_raised>>
       ELSE LET cols == find_cols(fieldnames.cells, None, None)
            IN /\ filename_col' = cols.filename_col
               /\ description_col' = cols.description_col
               /\ IF missing_cols(cols.filename_col, cols.description_col)
                  THEN /\ flmd_pc' = "done"
                       /\ flmd_result' = on_return(file_descriptions)
                  ELSE /\ flmd_pc' = "rows"
                       /\ UNCHANGED flmd_result
               /\ UNCHANGED flmd_raised
    /\ UNCHANGED <<fieldnames, flmd_remaining, filename, description, flmd_row,
                   file_descriptions, flmd_rows_read, doiVars, sanVars, pgVars, toolVars, keyVars, clVars, fmtVars, cvVars, sdVars, ccVars>>

\* Lines 108-113, one iteration: the next record is read; a blank line is
\* passed over by DictReader; csv.Error, or .strip() on the None of a short
\* row, is caught at line 115 and ends the parse.
FlmdRow ==
    /\ flmd_pc = "rows"
    /\ flmd_remaining > 0
    /\ flmd_remaining' = flmd_remaining - 1
    /\ \E rec \in FlmdRecords(fieldnames.cells) :
        /\ flmd_row' = rec
        /\ IF rec.kind = "error"
          THEN /\ flmd_raised' = TRUE
               /\ flmd_pc' = "done"
               /\ flmd_result' = on_exception(file_descriptions)
               /\ UNCHANGED <<filename, description, file_descriptions, flmd_rows_read>>
          ELSE IF rec.cells = <<>>
          THEN UNCHANGED <<filename, description, file_descriptions, flmd_rows_read,
                           flmd_raised, flmd_pc, flmd_result>>
          ELSE LET f == row_get(fieldnames.cells, rec.cells, filename_col)
                   d == row_get(fieldnames.cells, rec.cells, description_col)
               IN /\ flmd_rows_read' = flmd_rows_read + 1
                  /\ IF f = None
                     THEN /\ flmd_raised' = TRUE
                          /\ flmd_pc' = "done"
                          /\ flmd_result' = on_exception(file_descriptions)
                          /\ UNCHANGED <<filename, description, file_descriptions>>
                     ELSE IF d = None
                     THEN /\ filename' = strip(f)
                          /\ flmd_raised' = TRUE
                          /\ flmd_pc' = "done"
                          /\ flmd_result' = on_exception(file_descriptions)
                          /\ UNCHANGED <<description, file_descriptions>>
                     ELSE /\ filename' = strip(f)
                          /\ description' = strip(d)
                          /\ file_descriptions' = put_row(file_descriptions, strip(f), strip(d))
                          /\ UNCHANGED <<flmd_raised, flmd_pc, flmd_result>>
    /\ UNCHANGED <<fieldnames, filename_col, description_col, doiVars, sanVars, pgVars, toolVars, keyVars, clVars, fmtVars, cvVars, sdVars, ccVars>>

\* Line 118: the reader is exhausted and the mapping returned.
FlmdReturn ==
    /\ flmd_pc = "rows"
    /\ flmd_remaining = 0
    /\ flmd_pc' = "done"
    /\ flmd_result' = on_return(file_descriptions)
    /\ UNCHANGED <<fieldnames, flmd_remaining, filename_col, description_col,
                   filename, description, file_descriptions, flmd_rows_read,
                   flmd_raised, flmd_row, doiVars, sanVars, pgVars, toolVars, keyVars, clVars, fmtVars, cvVars, sdVars, ccVars>>

FlmdNext == FlmdOpen \/ FlmdRow \/ FlmdReturn

(***************************************************************************)
(* search_ess_deepdive_tool and search_ess_deepdive                        *)
(***************************************************************************)
\* The largest pageSize search_ess_deepdive transmits.
PageSizeCap == 100

Min(a, b) == IF a < b THEN a ELSE b

\* Faulty variant: the page size is sent as requested.
search_params_unclamped(row, size) == [rowStart |-> row, pageSize |-> size]

\* The pagination parameters search_ess_deepdive sends.
search_params(row, size) == [rowStart |-> row, pageSize |-> Min(size, PageSizeCap)]

\* if max_pages and max_pages > 1 (None is held as 0: both are false here)
multi_page(mp) == mp # 0 /\ mp > 1

\* Faulty variant: the loop runs once more.
loop_continues_once_more(fetched, mp) == fetched <= mp

\* while pages_fetched < max_pages
loop_continues(fetched, mp) == fetched < mp

\* Faulty variant: each page replaces what was collected.
extend_results_replace(all, resp) == IF resp.has_results THEN resp.results ELSE all

\* if "results" in result: all_results.extend(result["results"])
extend_results(all, resp) == IF resp.has_results THEN all \o resp.results ELSE all

\* result.get("pageCount", 0)
page_count_of(resp) == IF resp.has_page_count THEN resp.pageCount ELSE 0

\* if not page_count or page_count <= 1
no_more_pages(pc) == pc = 0 \/ pc <= 1

\* The arguments the tool is called with.
PageSizes == {1, 25, PageSizeCap, PageSizeCap + 1, 2 * PageSizeCap}
RowStarts == {1, 26}

\* The responses of the field index: with or without a 'results' list, with or
\* without a pageCount.
PageResults == {<<>>, <<"r1">>, <<"r2", "r1">>}
Responses ==
    {[has_results |-> TRUE, results |-> r, has_page_count |-> TRUE, pageCount |-> n] :
        r \in PageResults, n \in {0, 1, 2, 5}}
    \cup {[has_results |-> FALSE, results |-> <<>>, has_page_count |-> TRUE, pageCount |-> n] :
        n \in {1, 2}}
    \cup {[has_results |-> TRUE, results |-> r, has_page_count |-> FALSE, pageCount |-> 0] :
        r \in PageResults}

NoReturn ==
    [kind |-> "pending", results |-> <<>>, total_results_fetched |-> 0,
     pages_fetched |-> 0, next_row_start |-> 0]

\* Faulty variant: the error payload carries what was collected so far.
error_payload_partial(all) ==
    [NoReturn EXCEPT !.kind = "error", !.results = all,
                     !.total_results_fetched = Len(all)]

\* Lines 970-974: the payload of the except clause holds the message alone.
error_payload(all) == [NoReturn EXCEPT !.kind = "error"]

PgInit ==
    /\ pg_pc = "call"
    /\ max_pages \in 0..MaxPages
    /\ row_start \in RowStarts
    /\ page_size \in PageSizes
    /\ current_row = 0
    /\ pages_fetched = 0
    /\ all_results = <<>>
    /\ pg_requests = <<>>
    /\ pg_pages = <<>>
    /\ pg_return = NoReturn

\* Lines 894-904: the branch on max_pages and the loop's locals.
PgStart ==
    /\ pg_pc = "call"
    /\ IF multi_page(max_pages)
       THEN /\ pg_pc' = "loop"
            /\ current_row' = row_start
            /\ pages_fetched' = 0
            /\ all_results' = <<>>
       ELSE /\ pg_pc' = "single"
            /\ UNCHANGED <<current_row, pages_fetched, all_results>>
    /\ UNCHANGED <<max_pages, row_start, page_size, pg_requests, pg_pages, pg_return,
                   doiVars, sanVars, flmdVars, toolVars, keyVars, clVars, fmtVars, cvVars, sdVars, ccVars>>

\* Lines 906-931, one iteration: the request is sent and answered, the page's
\* results collected, and the loop left or advanced.
PgFetch ==
    /\ pg_pc = "loop"
    /\ loop_continues(pages_fetched, max_pages)
    /\ pg_requests' = Append(pg_requests, search_params(current_row, page_size))
    /\ \E resp \in Responses :
          /\ pg_pages' = Append(pg_pages, resp)
          /\ all_results' = extend_results(all_results, resp)
          /\ IF no_more_pages(page_count_of(resp))
             THEN /\ pg_pc' = "return"
                  /\ UNCHANGED <<pages_fetched, current_row>>
             ELSE /\ pages_fetched' = pages_fetched + 1
                  /\ current_row' = current_row + page_size
                  /\ UNCHANGED pg_pc
    /\ UNCHANGED <<max_pages, row_start, page_size, pg_return, doiVars, sanVars, flmdVars, toolVars, keyVars, clVars, fmtVars, cvVars, sdVars, ccVars>>

\* Lines 907-918 and 970-974: the request raises (a transport error, a non-2xx
\* status, a body that is not JSON) and the tool returns its error payload.
PgFetchRaises ==
    /\ \/ pg_pc = "loop" /\ loop_continues(pages_fetched, max_pages)
          /\ pg_requests' = Append(pg_requests, search_params(current_row, page_size))
       \/ pg_pc = "single"
          /\ pg_requests' = Append(pg_requests, search_params(row_start, page_size))
    /\ pg_pc' = "done"
    /\ pg_return' = error_payload(all_results)
    /\ UNCHANGED <<max_pages, row_start, page_size, current_row, pages_fetched,
                   all_results, pg_pages, doiVars, sanVars, flmdVars, toolVars, keyVars, clVars, fmtVars, cvVars, sdVars, ccVars>>

\* Lines 933-942: the loop is over and the combined payload returned.
PgReturn ==
    /\ \/ pg_pc = "return"
       \/ pg_pc = "loop" /\ ~loop_continues(pages_fetched, max_pages)
    /\ pg_pc' = "done"
    /\ pg_return' = [kind |-> "pages",
                     results |-> all_results,
                     total_results_fetched |-> Len(all_results),
                     pages_fetched |-> pages_fetched + 1,
                     next_row_start |-> 0]
    /\ UNCHANGED <<max_pages, row_start, page_size, current_row, pages_fetched,
                   all_results, pg_requests, pg_pages, doiVars, sanVars, flmdVars, toolVars, keyVars, clVars, fmtVars, cvVars, sdVars, ccVars>>

\* Lines 944-969: the single-page request, with pagination_info added when the
\* index reports more than one page.
PgSingle ==
    /\ pg_pc = "single"
    /\ pg_requests' = Append(pg_requests, search_params(row_start, page_size))
    /\ \E resp \in Responses :
          /\ pg_pages' = Append(pg_pages, resp)
          /\ pg_return' = [kind |-> "single",
                           results |-> resp.results,
                           total_results_fetched |-> 0,
                           pages_fetched |-> 0,
                           next_row_start |->
                               IF page_count_of(resp) # 0 /\ page_count_of(resp) > 1
                               THEN row_start + page_size ELSE 0]
    /\ pg_pc' = "done"
    /\ UNCHANGED <<max_pages, row_start, page_size, current_row, pages_fetched,
                   all_results, doiVars, sanVars, flmdVars, toolVars, keyVars, clVars, fmtVars, cvVars, sdVars, ccVars>>

PgNext == PgStart \/ PgFetch \/ PgFetchRaises \/ PgReturn \/ PgSingle

PgIdle ==
    /\ pg_pc = "idle"
    /\ max_pages = 0
    /\ row_start = 1
    /\ page_size = 25
    /\ current_row = 0
    /\ pages_fetched = 0
    /\ all_results = <<>>
    /\ pg_requests = <<>>
    /\ pg_pages = <<>>
    /\ pg_return = NoReturn

(***************************************************************************)
(* The tool functions main() registers: each body is one try block whose   *)
(* except Exception clause turns the exception into the returned string.   *)
(***************************************************************************)
ToolNames ==
    {"search-datasets", "get-dataset", "parse-flmd-file", "get-dataset-permissions",
     "doi-to-essdive-id", "essdive-id-to-doi", "search-ess-deepdive",
     "get-ess-deepdive-dataset", "get-ess-deepdive-file"}

\* The steps of each tool's body, in order.
tool_steps(t) ==
    CASE t = "search-datasets" -> <<"keywords", "request", "format", "dumps">>
      [] t = "get-dataset" -> <<"request", "format">>
      [] t = "parse-flmd-file" -> <<"parse", "dumps">>
      [] t = "get-dataset-permissions" -> <<"request", "dumps">>
      [] t = "doi-to-essdive-id" -> <<"normalize", "lookup", "dumps">>
      [] t = "essdive-id-to-doi" -> <<"lookup", "dumps">>
      [] t = "search-ess-deepdive" -> <<"split_doi", "request", "dumps">>
      [] t = "get-ess-deepdive-dataset" -> <<"request", "dumps">>
      [] t = "get-ess-deepdive-file" -> <<"request", "summary", "dumps">>

\* The exceptions a step can raise: the HTTP client's on a request, ValueError
\* from the identifier lookups (which wrap every failure in it), and the type
\* errors of a value of an unexpected shape.  parse_flmd_file and the keywords
\* test raise nothing.
step_raises(step) ==
    CASE step = "request" -> {"ConnectError", "HTTPStatusError", "JSONDecodeError"}
      [] step = "lookup" -> {"ValueError"}
      [] step \in {"format", "summary", "normalize", "split_doi"} -> {"AttributeError", "TypeError"}
      [] step = "dumps" -> {"TypeError"}
      [] OTHER -> {}

\* Faulty variant: the first statement of the body stands before the try.
in_try_after_first(t, i) == i \in 2..Len(tool_steps(t))

\* Whether step i of tool t lies between the tool's try and its except.
in_try(t, i) == i \in 1..Len(tool_steps(t))

ErrorSearching == <<"E","r","r","o","r"," ","s","e","a","r","c","h","i","n","g"," ","f","o","r"," ","d","a","t","a","s","e","t","s",":"," ">>
ErrorRetrieving == <<"E","r","r","o","r"," ","r","e","t","r","i","e","v","i","n","g"," ","d","a","t","a","s","e","t"," ","i","n","f","o","r","m","a","t","i","o","n",":"," ">>

\* The except Exception clause of each tool.
handler(t, exc) ==
    CASE t = "search-datasets" ->
            [is_str |-> TRUE, form |-> "text", keys |-> {}, text |-> ErrorSearching]
      [] t = "get-dataset" ->
            [is_str |-> TRUE, form |-> "text", keys |-> {}, text |-> ErrorRetrieving]
      [] OTHER ->
            [is_str |-> TRUE, form |-> "json", keys |-> {"error"}, text |-> <<>>]

\* What the body returns when nothing was raised: json.dumps(...), or the text
\* built by the two catalog tools.
returned(t) ==
    IF t \in {"search-datasets", "get-dataset"}
    THEN [is_str |-> TRUE, form |-> "text", keys |-> {}, text |-> <<>>]
    ELSE [is_str |-> TRUE, form |-> "json", keys |-> {"result"}, text |-> <<>>]

\* An exception that leaves the tool function.
Propagated == [is_str |-> FALSE, form |-> "exception", keys |-> {}, text |-> <<>>]

Pending == [is_str |-> FALSE, form |-> "pending", keys |-> {}, text |-> <<>>]

ToolInit ==
    /\ tool_pc = "body"
    /\ tool \in ToolNames
    /\ tool_step = 1
    /\ tool_exc = "none"
    /\ tool_result = Pending

\* The current step of the body completes.
ToolStepOk ==
    /\ tool_pc = "body"
    /\ tool_step <= Len(tool_steps(tool))
    /\ tool_step' = tool_step + 1
    /\ UNCHANGED <<tool_pc, tool, tool_exc, tool_result, doiVars, sanVars, flmdVars, pgVars, keyVars, clVars, fmtVars, cvVars, sdVars, ccVars>>

\* The current step of the body raises.
ToolStepRaises ==
    /\ tool_pc = "body"
    /\ tool_step <= Len(tool_steps(tool))
    /\ \E exc \in step_raises(tool_steps(tool)[tool_step]) : tool_exc' = exc
    /\ tool_pc' = "raised"
    /\ UNCHANGED <<tool, tool_step, tool_result, doiVars, sanVars, flmdVars, pgVars, keyVars, clVars, fmtVars, cvVars, sdVars, ccVars>>

\* The raised exception reaches the except clause, or leaves the function.
ToolCatch ==
    /\ tool_pc = "raised"
    /\ tool_result' = IF in_try(tool, tool_step) THEN handler(tool, tool_exc) ELSE Propagated
    /\ tool_pc' = "done"
    /\ UNCHANGED <<tool, tool_step, tool_exc, doiVars, sanVars, flmdVars, pgVars, keyVars, clVars, fmtVars, cvVars, sdVars, ccVars>>

\* The body reaches its return statement.
ToolReturn ==
    /\ tool_pc = "body"
    /\ tool_step > Len(tool_steps(tool))
    /\ tool_result' = returned(tool)
    /\ tool_pc' = "done"
    /\ UNCHANGED <<tool, tool_step, tool_exc, doiVars, sanVars, flmdVars, pgVars, keyVars, clVars, fmtVars, cvVars, sdVars, ccVars>>

ToolNext == ToolStepOk \/ ToolStepRaises \/ ToolCatch \/ ToolReturn

ToolIdle ==
    /\ tool_pc = "idle"
    /\ tool = "search-datasets"
    /\ tool_step = 1
    /\ tool_exc = "none"
    /\ tool_result = Pending

(***************************************************************************)
(* get_api_key: the credential from the --token argument, the token file   *)
(* or the ESSDIVE_API_TOKEN environment variable.                          *)
(***************************************************************************)
\* Faulty variant: only None is false.
not_none(s) == s # None

\* Python's truth test of an optional string: None and "" are false.
truthy(s) == s # None /\ s # <<>>

\* The --token-file argument with what open() finds there: no argument, an
\* empty path, a path that cannot be opened, or a file with its contents.
NoTokenFile == [kind |-> "none", contents |-> <<>>]
EmptyPath == [kind |-> "empty_path", contents |-> <<>>]
Unreadable == [kind |-> "unreadable", contents |-> <<>>]
TokenFile(contents) == [kind |-> "file", contents |-> contents]

\* `if ... and token_file`: the argument names a path.
names_path(tf) == tf.kind \in {"unreadable", "file"}

key_value(v) == [kind |-> "value", value |-> v, exc |-> "none"]
key_raise(exc) == [kind |-> "raise", value |-> None, exc |-> exc]

\* `if api_key is None and token_file:`
reads_token_file(k, tf) == k = None /\ names_path(tf)

\* os.getenv("ESSDIVE_API_TOKEN") is consulted when no key is held yet.
get_api_key(k, tf, env) ==
    IF reads_token_file(k, tf) /\ tf.kind = "unreadable"
    THEN key_raise("ValueError")
    ELSE LET from_file == IF reads_token_file(k, tf) THEN strip(tf.contents) ELSE k
             from_env == IF ~truthy(from_file) THEN env ELSE from_file
         IN  IF ~truthy(from_env) THEN key_raise("ValueError") ELSE key_value(from_env)

ApiKeys == {None, <<>>, <<" ">>, <<"t">>}
TokenFiles == {NoTokenFile, EmptyPath, Unreadable}
                  \cup {TokenFile(c) : c \in {<<>>, <<" ">>, <<"f">>, <<" ", "f", "\n">>}}
EnvTokens == {None, <<>>, <<"e">>}

KeyInit ==
    /\ key_pc = "start"
    /\ api_key \in ApiKeys
    /\ token_file \in TokenFiles
    /\ env_token \in EnvTokens
    /\ key_result = key_raise("none")

\* main() resolves the credential once, at start-up.
GetApiKey ==
    /\ key_pc = "start"
    /\ key_result' = get_api_key(api_key, token_file, env_token)
    /\ key_pc' = "done"
    /\ UNCHANGED <<api_key, token_file, env_token, doiVars, sanVars, flmdVars, pgVars, toolVars, clVars, fmtVars, cvVars, sdVars, ccVars>>

KeyNext == GetApiKey

KeyIdle ==
    /\ key_pc = "idle"
    /\ api_key = None
    /\ token_file = NoTokenFile
    /\ env_token = None
    /\ key_result = key_raise("none")

(***************************************************************************)
(* The API client: ESSDiveClient (the dataset catalog) and the module's    *)
(* ESS-DeepDive functions (the field index).  Each call sends a GET, which *)
(* is recorded with its URL, query parameters and headers.                 *)
(***************************************************************************)
\* A Python dict is a function from its keys; {} is the empty function.
EmptyDict == <<>>

dict_put(d, k, v) == (k :> v) @@ d

\* `if cond: params[k] = v`
put_if(d, cond, k, v) == IF cond THEN dict_put(d, k, v) ELSE d

BASE_URL == <<"h", "t", "t", "p", "s", ":", "/", "/", "a", "p", "i", ".", "e", "s", "s", "-", "d", "i", "v", "e", ".", "l", "b", "l", ".", "g", "o", "v">>

ESS_DEEPDIVE_BASE_URL == <<"h", "t", "t", "p", "s", ":", "/", "/", "f", "u", "s", "i", "o", "n", ".", "e", "s", "s", "-", "d", "i", "v", "e", ".", "l", "b", "l", ".", "g", "o", "v", "/", "a", "p", "i", "/", "v", "1", "/", "d", "e", "e", "p", "d", "i", "v", "e">>

Bearer == <<"B", "e", "a", "r", "e", "r", " ">>

\* Faulty variant: the header is set whatever the token is.
client_headers_always(api_token) ==
    dict_put(EmptyDict, "Authorization", Bearer \o (IF api_token = None THEN <<>> ELSE api_token))

\* ESSDiveClient.__init__: self.headers, which _get_headers returns.
client_headers(api_token) ==
    put_if(EmptyDict, truthy(api_token), "Authorization", Bearer \o api_token)

\* The bools, and str(b) of one.
PyTrue == <<"True">>
PyFalse == <<"False">>

str_bool(b) == IF b = PyTrue THEN <<"T", "r", "u", "e">> ELSE <<"F", "a", "l", "s", "e">>

\* An Optional[List[str]] argument that is None, and Python's truth test of
\* such an argument: None and [] are false.
NoneList == <<None>>

truthy_list(l) == l # NoneList /\ l # <<>>

\* An Optional[int] argument: absent, or present with its value.
NoInt == [some |-> FALSE, v |-> 0]
SomeInt(n) == [some |-> TRUE, v |-> n]

\* urllib.parse.quote(s, safe=""): letters, digits and "_.-~" are kept, every
\* other character becomes %XX.
Unreserved ==
    {UpperCase[i] : i \in 1..26} \cup {LowerCase[i] : i \in 1..26} \cup Digits \cup {"_", ".", "-", "~"}

percent(c) ==
    CASE c = ":" -> <<"%", "3", "A">>
      [] c = "/" -> <<"%", "2", "F">>
      [] c = " " -> <<"%", "2", "0">>

quote(s) == Flatten([i \in 1..Len(s) |-> IF s[i] \in Unreserved THEN <<s[i]>> ELSE percent(s[i])])

\* Faulty variant: the whole list.
slice_all(s, n) == s

\* Python's s[:n] for n >= 0.
slice_to(s, n) == SubSeq(s, 1, Min(n, Len(s)))

\* The largest number of DOIs search_ess_deepdive transmits.
DoiCap == 100

request(api, url, params, headers) ==
    [api |-> api, url |-> url, params |-> params, headers |-> headers]

\* ESSDiveClient.search_datasets: the query parameters.
search_datasets_params(a) ==
    LET p0 == dict_put(dict_put(EmptyDict, "rowStart", a.row_start), "pageSize", a.page_size)
        p1 == put_if(p0, a.is_public # None, "isPublic", lower(str_bool(a.is_public)))
        p2 == put_if(p1, truthy(a.creator), "creator", a.creator)
        p3 == put_if(p2, truthy(a.provider_name), "providerName", a.provider_name)
        p4 == put_if(p3, truthy(a.text), "text", a.text)
        p5 == put_if(p4, truthy(a.date_published), "datePublished", a.date_published)
    IN  put_if(p5, truthy_list(a.keywords), "keywords", a.keywords)

\* search_ess_deepdive: the query parameters.
search_ess_deepdive_params(a) ==
    LET s == search_params(a.row_start, a.page_size)
        p0 == dict_put(dict_put(EmptyDict, "rowStart", s.rowStart), "pageSize", s.pageSize)
        p1 == put_if(p0, truthy(a.field_name), "fieldName", a.field_name)
        p2 == put_if(p1, truthy(a.field_definition), "fieldDefinition", a.field_definition)
        p3 == put_if(p2, truthy(a.field_value_text), "fieldValueText", a.field_value_text)
        p4 == put_if(p3, a.field_value_numeric.some, "fieldValueNumeric", a.field_value_numeric.v)
        p5 == put_if(p4, truthy(a.field_value_date), "fieldValueDate", a.field_value_date)
        p6 == put_if(p5, a.record_count_min.some, "recordCountMin", a.record_count_min.v)
        p7 == put_if(p6, a.record_count_max.some, "recordCountMax", a.record_count_max.v)
    IN  put_if(p7, truthy_list(a.doi), "doi", slice_to(a.doi, DoiCap))

\* Faulty variant: the prefix is put before every argument.
prefix_always(doi) == DoiColon \o doi

\* get_ess_deepdive_dataset: the doi with its prefix ensured.
ensure_doi_prefix(doi) == IF startswith(doi, DoiColon) THEN doi ELSE DoiColon \o doi

get_ess_deepdive_dataset_url(a) ==
    ESS_DEEPDIVE_BASE_URL \o <<"/">> \o ensure_doi_prefix(a.doi) \o <<":">> \o a.file_path

CatalogOps == {"search_datasets", "get_dataset", "get_dataset_status", "get_dataset_permissions"}
FieldIndexOps == {"search_ess_deepdive", "get_ess_deepdive_dataset", "get_ess_deepdive_file"}

\* The endpoint suffix of the three per-dataset catalog calls.
suffix(op) ==
    CASE op = "get_dataset" -> <<>>
      [] op = "get_dataset_status" -> <<"/", "s", "t", "a", "t", "u", "s">>
      [] op = "get_dataset_permissions" -> <<"/", "s", "h", "a", "r", "e">>

Packages == <<"/", "p", "a", "c", "k", "a", "g", "e", "s">>

\* The GET a call sends.  The catalog calls pass the client's headers; the
\* field-index calls pass none, and get_ess_deepdive_file calls
\* get_ess_deepdive_dataset with its own arguments.
request_of(op, a, api_token) ==
    CASE op = "search_datasets" ->
            request("catalog", BASE_URL \o Packages, search_datasets_params(a),
                    client_headers(api_token))
      [] op \in {"get_dataset", "get_dataset_status", "get_dataset_permissions"} ->
            request("catalog", BASE_URL \o Packages \o <<"/">> \o quote(a.identifier) \o suffix(op),
                    EmptyDict, client_headers(api_token))
      [] op = "search_ess_deepdive" ->
            request("field_index", ESS_DEEPDIVE_BASE_URL, search_ess_deepdive_params(a), EmptyDict)
      [] op \in {"get_ess_deepdive_dataset", "get_ess_deepdive_file"} ->
            request("field_index", get_ess_deepdive_dataset_url(a), EmptyDict, EmptyDict)

\* Faulty variant: the GET is sent a second time.
send_twice(requests, r) == Append(Append(requests, r), r)

\* client.get(...) / requests.get(...): one GET goes out.
send(requests, r) == Append(requests, r)

OptStrings == {None, <<>>, <<"x">>}
Keywords == {NoneList, <<>>, <<<<"k">>>>, <<<<"k">>, <<"j">>>>}
Identifiers == {<<"e", "s", "s", "-", "d", "i", "v", "e", "-", "1">>, <<"d", "o", "i", ":", "1", "0", ".", "1", "/", "a", " ", "b">>}

\* A list of n distinct DOIs.
doi_list(n) == [i \in 1..n |-> <<"1", "0", ".", "1", "/">> \o str_nat(i)]

DoiListLengths == {0, 1, DoiCap - 1, DoiCap, DoiCap + 1, DoiCap + 50}
DoiLists == {NoneList} \cup {doi_list(n) : n \in DoiListLengths}

DeepDiveDois ==
    {<<"1", "0", ".", "1", "/", "a">>, <<"d", "o", "i", ":", "1", "0", ".", "1", "/", "a">>, <<"d", "o", "i", ":", "d", "o", "i", ":", "1", "0", ".", "1", "/", "a">>, <<" ", "d", "o", "i", ":", "1", "0", ".", "1", "/", "a">>, <<"D", "O", "I", ":", "1", "0", ".", "1", "/", "a">>,
     <<"h", "t", "t", "p", "s", ":", "/", "/", "d", "o", "i", ".", "o", "r", "g", "/", "1", "0", ".", "1", "/", "a">>, <<>>}
FilePaths == {<<"d", ".", "z", "i", "p", "/", "f", ".", "c", "s", "v">>, <<"f", ".", "c", "s", "v">>}

ClArgs(op) ==
    CASE op = "search_datasets" ->
            [row_start : RowStarts, page_size : {25, 2 * PageSizeCap}, is_public : {None, PyTrue, PyFalse},
             creator : OptStrings, provider_name : OptStrings, text : OptStrings,
             date_published : OptStrings, keywords : Keywords]
      [] op \in {"get_dataset", "get_dataset_status", "get_dataset_permissions"} ->
            [identifier : Identifiers]
      [] op = "search_ess_deepdive" ->
            [field_name : OptStrings, field_definition : {None, <<"x">>},
             field_value_text : {None, <<"x">>}, field_value_numeric : {NoInt, SomeInt(0)},
             field_value_date : {None, <<"x">>}, record_count_min : {NoInt, SomeInt(0)},
             record_count_max : {NoInt, SomeInt(5)}, doi : DoiLists,
             row_start : {1}, page_size : PageSizes]
      [] op \in {"get_ess_deepdive_dataset", "get_ess_deepdive_file"} ->
            [doi : DeepDiveDois, file_path : FilePaths]

\* The token the process's ESSDiveClient was constructed with.
ApiTokens == {None, <<>>, <<"t">>}

cl_pending == [kind |-> "pending", exc |-> "none"]

ClInit ==
    /\ cl_pc = "start"
    /\ cl_token \in ApiTokens
    /\ cl_op \in CatalogOps \cup FieldIndexOps
    /\ cl_args \in ClArgs(cl_op)
    /\ cl_requests = <<>>
    /\ cl_result = cl_pending

\* The call builds its URL and parameters and sends the GET.
ClGet ==
    /\ cl_pc = "start"
    /\ cl_requests' = send(cl_requests, request_of(cl_op, cl_args, cl_token))
    /\ cl_pc' = "sent"
    /\ UNCHANGED <<cl_token, cl_op, cl_args, cl_result, doiVars, sanVars, flmdVars, pgVars, toolVars, keyVars, fmtVars, cvVars, sdVars, ccVars>>

\* The GET itself raises (no connection, time-out): the call raises.
ClTransportError ==
    /\ cl_pc = "sent"
    /\ cl_result' = [kind |-> "raise", exc |-> "TransportError"]
    /\ cl_pc' = "done"
    /\ UNCHANGED <<cl_token, cl_op, cl_args, cl_requests, doiVars, sanVars, flmdVars, pgVars, toolVars, keyVars, fmtVars, cvVars, sdVars, ccVars>>

\* A response with a non-2xx status: response.raise_for_status() raises.
ClHttpError ==
    /\ cl_pc = "sent"
    /\ cl_result' = [kind |-> "raise", exc |-> "HTTPStatusError"]
    /\ cl_pc' = "done"
    /\ UNCHANGED <<cl_token, cl_op, cl_args, cl_requests, doiVars, sanVars, flmdVars, pgVars, toolVars, keyVars, fmtVars, cvVars, sdVars, ccVars>>

\* A 2xx response: the call returns response.json().
ClReturn ==
    /\ cl_pc = "sent"
    /\ cl_result' = [kind |-> "return", exc |-> "none"]
    /\ cl_pc' = "done"
    /\ UNCHANGED <<cl_token, cl_op, cl_args, cl_requests, doiVars, sanVars, flmdVars, pgVars, toolVars, keyVars, fmtVars, cvVars, sdVars, ccVars>>

ClNext == ClGet \/ ClTransportError \/ ClHttpError \/ ClReturn

ClIdle ==
    /\ cl_pc = "idle"
    /\ cl_token = None
    /\ cl_op = "get_dataset"
    /\ cl_args = [identifier |-> <<>>]
    /\ cl_requests = <<>>
    /\ cl_result = cl_pending

(***************************************************************************)
(* ESSDiveClient.format_results.  A JSON object is a function from its     *)
(* keys; a description or keywords value carries its type, which the code  *)
(* tests with isinstance.                                                  *)
(***************************************************************************)
Str(s) == [t |-> "str", v |-> s]
List(l) == [t |-> "list", v |-> l]

\* dict.get(k, default)
dict_get(d, k, default) == IF k \in DOMAIN d THEN d[k] ELSE default

\* sep.join(list)
RECURSIVE join(_, _)
join(sep, list) ==
    IF list = <<>> THEN <<>>
    ELSE IF Len(list) = 1 THEN list[1]
    ELSE list[1] \o sep \o join(sep, Tail(list))

\* What format_results returns: a string or a JSON object.
fmt_str(s) == [kind |-> "str", value |-> s]
fmt_obj(o) == [kind |-> "obj", value |-> o]

\* Faulty variant: another text.
NoResultsFoundShort == <<"N", "o", " ", "r", "e", "s", "u", "l", "t", "s", " ", "f", "o", "u", "n", "d", ".">>

NoResultsFound == <<"N", "o", " ", "r", "e", "s", "u", "l", "t", "s", " ", "f", "o", "u", "n", "d", " ", "o", "r", " ", "i", "n", "v", "a", "l", "i", "d", " ", "r", "e", "s", "p", "o", "n", "s", "e", " ", "f", "o", "r", "m", "a", "t", ".">>

Untitled == <<"U", "n", "t", "i", "t", "l", "e", "d">>
Unknown == <<"U", "n", "k", "n", "o", "w", "n">>

\* The longest description shown in full.
DescriptionLimit == 300

header_line(total, n) ==
    <<"F", "o", "u", "n", "d", " ">> \o str_int(total) \o <<" ", "d", "a", "t", "a", "s", "e", "t", "s", ".", " ", "S", "h", "o", "w", "i", "n", "g", " ">> \o str_nat(n) \o <<" ", "r", "e", "s", "u", "l", "t", "s", ":", "\n", "\n">>

\* Faulty variant: a missing name reads 'Unknown'.
entry_lines_unknown_name(i, dataset) ==
    LET ds_data == dict_get(dataset, "dataset", EmptyDict)
    IN  str_nat(i) \o <<".", " ">> \o dict_get(ds_data, "name", Unknown) \o <<"\n">>
        \o <<" ", " ", " ", "I", "D", ":", " ">> \o dict_get(dataset, "id", Unknown) \o <<"\n">>
        \o <<" ", " ", " ", "P", "u", "b", "l", "i", "s", "h", "e", "d", ":", " ">> \o dict_get(ds_data, "datePublished", Unknown) \o <<"\n">>
        \o <<" ", " ", " ", "U", "R", "L", ":", " ">> \o dict_get(dataset, "viewUrl", Unknown) \o <<"\n">>

\* The four lines both formats write for the i-th dataset.
entry_lines(i, dataset) ==
    LET ds_data == dict_get(dataset, "dataset", EmptyDict)
    IN  str_nat(i) \o <<".", " ">> \o dict_get(ds_data, "name", Untitled) \o <<"\n">>
        \o <<" ", " ", " ", "I", "D", ":", " ">> \o dict_get(dataset, "id", Unknown) \o <<"\n">>
        \o <<" ", " ", " ", "P", "u", "b", "l", "i", "s", "h", "e", "d", ":", " ">> \o dict_get(ds_data, "datePublished", Unknown) \o <<"\n">>
        \o <<" ", " ", " ", "U", "R", "L", ":", " ">> \o dict_get(dataset, "viewUrl", Unknown) \o <<"\n">>

\* Faulty variant: the ellipsis is added from 300 characters on.
description_line_from_limit(ds_data) ==
    LET given == dict_get(ds_data, "description", Str(<<>>))
        shown == IF given.t = "list" THEN join(<<" ">>, given.v) ELSE given.v
    IN  IF shown # <<>>
        THEN <<" ", " ", " ", "D", "e", "s", "c", "r", "i", "p", "t", "i", "o", "n", ":", " ">> \o slice_to(shown, DescriptionLimit)
             \o (IF Len(shown) >= DescriptionLimit THEN <<".", ".", ".">> ELSE <<>>) \o <<"\n">>
        ELSE <<>>

description_line(ds_data) ==
    LET given == dict_get(ds_data, "description", Str(<<>>))
        shown == IF given.t = "list" THEN join(<<" ">>, given.v) ELSE given.v
    IN  IF shown # <<>>
        THEN <<" ", " ", " ", "D", "e", "s", "c", "r", "i", "p", "t", "i", "o", "n", ":", " ">> \o slice_to(shown, DescriptionLimit)
             \o (IF Len(shown) > DescriptionLimit THEN <<".", ".", ".">> ELSE <<>>) \o <<"\n">>
        ELSE <<>>

keywords_line(ds_data) ==
    LET given == dict_get(ds_data, "keywords", List(<<>>))
        keywords == IF given.t = "str" THEN <<given.v>> ELSE given.v
    IN  IF given.v # <<>>
        THEN <<" ", " ", " ", "K", "e", "y", "w", "o", "r", "d", "s", ":", " ">> \o join(<<",", " ">>, keywords) \o <<"\n">>
        ELSE <<>>

\* `if i < len(datasets): ... += "\n"`
blank_line(i, n) == IF i < n THEN <<"\n">> ELSE <<>>

summary(datasets, total) ==
    LET n == Len(datasets)
    IN  header_line(total, n)
        \o Flatten([i \in 1..n |-> entry_lines(i, datasets[i]) \o blank_line(i, n)])

detailed(datasets, total) ==
    LET n == Len(datasets)
        ds_data(i) == dict_get(datasets[i], "dataset", EmptyDict)
    IN  header_line(total, n)
        \o Flatten([i \in 1..n |-> entry_lines(i, datasets[i]) \o description_line(ds_data(i))
                                   \o keywords_line(ds_data(i)) \o blank_line(i, n)])

\* Faulty variant: the 'result' key is looked for before the format is.
format_results_key_first(results, ftype) ==
    IF "result" \notin DOMAIN results THEN fmt_str(NoResultsFound)
    ELSE IF ftype = "raw" THEN fmt_obj(results)
    ELSE IF ftype = "summary"
         THEN fmt_str(summary(results["result"], dict_get(results, "total", 0)))
    ELSE IF ftype = "detailed"
         THEN fmt_str(detailed(results["result"], dict_get(results, "total", 0)))
    ELSE fmt_obj(results)

format_results(results, ftype) ==
    IF ftype = "raw" THEN fmt_obj(results)
    ELSE IF "result" \notin DOMAIN results THEN fmt_str(NoResultsFound)
    ELSE IF ftype = "summary"
         THEN fmt_str(summary(results["result"], dict_get(results, "total", 0)))
    ELSE IF ftype = "detailed"
         THEN fmt_str(detailed(results["result"], dict_get(results, "total", 0)))
    ELSE fmt_obj(results)

\* A string of n characters.
text_of(n) == [i \in 1..n |-> "d"]

\* The 'dataset' objects of the catalog's items.
FmtDsData ==
    {("name" :> <<"N", " ", "1">>) @@ ("datePublished" :> <<"2", "0", "2", "4", "-", "0", "1", "-", "0", "1">>),
     ("name" :> <<"M">>) @@ ("description" :> Str(<<"s", "o", "i", "l", " ", "d", "a", "t", "a">>))
         @@ ("keywords" :> List(<<<<"k">>, <<"j">>>>)),
     ("description" :> List(<<<<"a">>, <<"b">>>>)) @@ ("keywords" :> Str(<<"k">>)),
     ("description" :> Str(text_of(DescriptionLimit))) @@ ("keywords" :> List(<<>>)),
     ("description" :> Str(text_of(DescriptionLimit + 1))),
     ("description" :> Str(<<>>))}

\* The items of a catalog response.
FmtItems ==
    {EmptyDict, ("id" :> <<"d", "s", "1">>), ("viewUrl" :> <<"u">>)}
        \cup {("dataset" :> d) : d \in FmtDsData}
        \cup {("id" :> <<"d", "s", "1">>) @@ ("viewUrl" :> <<"u">>) @@ ("dataset" :> d) : d \in FmtDsData}

\* An item holding each of the keys the function reads, and the items that
\* lack any subset of them.
FullDsData ==
    ("name" :> <<"M">>) @@ ("datePublished" :> <<"2", "0", "2", "4">>)
        @@ ("description" :> Str(<<"s", "o", "i", "l">>)) @@ ("keywords" :> List(<<<<"k">>>>))
FullItem == ("id" :> <<"d", "s", "1">>) @@ ("viewUrl" :> <<"u">>)
only(d, keys) == IF keys = {} THEN EmptyDict ELSE [k \in keys |-> d[k]]
FmtItemsLacking ==
    {only(FullItem, top) : top \in SUBSET DOMAIN FullItem}
        \cup {only(FullItem, top) @@ ("dataset" :> only(FullDsData, in)) :
                  top \in SUBSET DOMAIN FullItem, in \in SUBSET DOMAIN FullDsData}

\* The most items in a response.
MaxItems == 2

\* The responses handed to format_results: with or without 'result', 'total'
\* and a key the function does not read.
FmtResults ==
    LET with_result == {EmptyDict} \cup {("result" :> r) : r \in SeqsUpTo(FmtItems, MaxItems)}
                           \cup {("result" :> <<item>>) : item \in FmtItemsLacking}
        with_total == with_result \cup {("total" :> t) @@ d : t \in {0, 7}, d \in with_result}
    IN  with_total \cup {("results" :> <<>>) @@ d : d \in with_total}

FormatTypes == {"summary", "detailed", "raw", "table"}

fmt_pending == [kind |-> "pending", value |-> <<>>]

FmtInit ==
    /\ fmt_pc = "start"
    /\ fmt_results \in FmtResults
    /\ format_type \in FormatTypes
    /\ fmt_out = fmt_pending

FormatResults ==
    /\ fmt_pc = "start"
    /\ fmt_out' = format_results(fmt_results, format_type)
    /\ fmt_pc' = "done"
    /\ UNCHANGED <<fmt_results, format_type, doiVars, sanVars, flmdVars, pgVars, toolVars, keyVars, clVars, cvVars, sdVars, ccVars>>

FmtNext == FormatResults

FmtIdle ==
    /\ fmt_pc = "idle"
    /\ fmt_results = EmptyDict
    /\ format_type = "raw"
    /\ fmt_out = fmt_pending

(***************************************************************************)
(* doi_to_essdive_id and essdive_id_to_doi: one catalog lookup inside      *)
(* `try: ... except Exception as e: raise ValueError(...)`.                *)
(***************************************************************************)
cv_return(v) == [kind |-> "return", value |-> v, exc |-> "none"]
cv_raise(exc) == [kind |-> "raise", value |-> None, exc |-> exc]

\* Faulty variant: the exception is raised again as it is.
reraise(exc) == exc

\* `except Exception as e: raise ValueError(...)`: what leaves the function
\* when exc is raised inside the try block.
wrap(exc) == "ValueError"

\* The identifier the function hands to client.get_dataset.
lookup_of(op, arg) == IF op = "doi_to_essdive_id" THEN _normalize_doi(arg) ELSE arg

\* doi_to_essdive_id, once the response is parsed.
essdive_id_of(result) ==
    LET essdive_id == dict_get(result, "id", None)
    IN  IF ~truthy(essdive_id) THEN cv_raise(wrap("ValueError")) ELSE cv_return(essdive_id)

\* essdive_id_to_doi, once the response is parsed.
doi_of(result) ==
    LET dataset_meta == dict_get(result, "dataset", EmptyDict)
        doi == dict_get(dataset_meta, "doi", None)
    IN  IF ~truthy(doi) THEN cv_raise(wrap("ValueError")) ELSE cv_return(_normalize_doi(doi))

converted(op, result) == IF op = "doi_to_essdive_id" THEN essdive_id_of(result) ELSE doi_of(result)

CvOps == {"doi_to_essdive_id", "essdive_id_to_doi"}

\* DOIs as callers and the catalog write them.
CvDois ==
    {<<"1", "0", ".", "1", "/", "a">>, <<"d", "o", "i", ":", "1", "0", ".", "1", "/", "a">>, <<"h", "t", "t", "p", "s", ":", "/", "/", "d", "o", "i", ".", "o", "r", "g", "/", "1", "0", ".", "1", "/", "a">>, <<"h", "t", "t", "p", ":", "/", "/", "d", "o", "i", ".", "o", "r", "g", "/", "1", "0", ".", "1", "/", "a">>,
     <<"d", "o", "i", ".", "o", "r", "g", "/", "1", "0", ".", "1", "/", "a">>, <<" ", "d", "o", "i", ":", "1", "0", ".", "1", "/", "a", "\n">>, <<"h", "t", "t", "p", "s", ":", "/", "/", "d", "o", "i", ".", "o", "r", "g", "/", "1", "0", ".", "1", "/", "d", "o", "i", ".", "o", "r", "g", "/", "a">>}
CvIds == {<<"e", "s", "s", "-", "d", "i", "v", "e", "-", "1">>, <<"e", "s", "s", "-", "d", "i", "v", "e", "-", "2">>}

CvArgs(op) == IF op = "doi_to_essdive_id" THEN CvDois ELSE CvIds

\* The catalog's answers: 'id' absent, null, empty or given; 'dataset' absent,
\* or given with 'doi' absent, null, empty or given.
CvResponses ==
    LET ids == {EmptyDict} \cup {("id" :> v) : v \in {None, <<>>} \cup CvIds}
        metas == {EmptyDict} \cup {("doi" :> v) : v \in {None, <<>>} \cup CvDois}
    IN  ids \cup {("dataset" :> m) @@ i : m \in metas, i \in ids}

\* What the GET can raise instead of answering.
CvFailures == {"TransportError", "HTTPStatusError", "JSONDecodeError"}

cv_pending == [kind |-> "pending", value |-> None, exc |-> "none"]

CvInit ==
    /\ cv_pc = "start"
    /\ cv_op \in CvOps
    /\ cv_arg \in CvArgs(cv_op)
    /\ cv_lookup = None
    /\ cv_response = [kind |-> "none", json |-> EmptyDict, exc |-> "none"]
    /\ cv_result = cv_pending

\* The event loop is made and client.get_dataset sends its GET.
CvLookup ==
    /\ cv_pc = "start"
    /\ cv_lookup' = lookup_of(cv_op, cv_arg)
    /\ cv_pc' = "waiting"
    /\ UNCHANGED <<cv_op, cv_arg, cv_response, cv_result, doiVars, sanVars, flmdVars, pgVars, toolVars, keyVars, clVars, fmtVars, sdVars, ccVars>>

\* The event loop cannot be made or run: RuntimeError inside the try block.
CvLoopFails ==
    /\ cv_pc = "start"
    /\ cv_response' = [kind |-> "raise", json |-> EmptyDict, exc |-> "RuntimeError"]
    /\ cv_result' = cv_raise(wrap("RuntimeError"))
    /\ cv_pc' = "done"
    /\ UNCHANGED <<cv_op, cv_arg, cv_lookup, doiVars, sanVars, flmdVars, pgVars, toolVars, keyVars, clVars, fmtVars, sdVars, ccVars>>

\* The GET fails, answers with a non-2xx status or with a body that is no JSON.
CvGetFails ==
    /\ cv_pc = "waiting"
    /\ \E e \in CvFailures :
        /\ cv_response' = [kind |-> "raise", json |-> EmptyDict, exc |-> e]
        /\ cv_result' = cv_raise(wrap(e))
    /\ cv_pc' = "done"
    /\ UNCHANGED <<cv_op, cv_arg, cv_lookup, doiVars, sanVars, flmdVars, pgVars, toolVars, keyVars, clVars, fmtVars, sdVars, ccVars>>

\* The GET answers: the id or the DOI is taken from the response.
CvAnswer ==
    /\ cv_pc = "waiting"
    /\ \E r \in CvResponses :
        /\ cv_response' = [kind |-> "json", json |-> r, exc |-> "none"]
        /\ cv_result' = converted(cv_op, r)
    /\ cv_pc' = "done"
    /\ UNCHANGED <<cv_op, cv_arg, cv_lookup, doiVars, sanVars, flmdVars, pgVars, toolVars, keyVars, clVars, fmtVars, sdVars, ccVars>>

CvNext == CvLookup \/ CvLoopFails \/ CvGetFails \/ CvAnswer

CvIdle ==
    /\ cv_pc = "idle"
    /\ cv_op = "doi_to_essdive_id"
    /\ cv_arg = <<>>
    /\ cv_lookup = None
    /\ cv_response = [kind |-> "none", json |-> EmptyDict, exc |-> "none"]
    /\ cv_result = cv_pending

(***************************************************************************)
(* The search-datasets tool: it turns its arguments into one call of       *)
(* ESSDiveClient.search_datasets, formats the answer and returns a string. *)
(***************************************************************************)
\* A keywords argument that was not given.
NoKeywords == [t |-> "none", v |-> <<>>]

\* Lines 609-614: `if keywords:` and the one-element list made of a string.
keywords_list_of(keywords) ==
    IF keywords.t # "none" /\ keywords.v # <<>>
    THEN IF keywords.t = "str" THEN <<keywords.v>> ELSE keywords.v
    ELSE NoneList

\* Faulty variant: the query is the text filter whenever it is given.
text_filter_always(query, creator, provider_name, keywords_list) ==
    IF truthy(query) THEN query ELSE None

\* Lines 618-620: `if query and not any([creator, provider_name, keywords_list])`.
text_filter(query, creator, provider_name, keywords_list) ==
    IF truthy(query) /\ ~(truthy(creator) \/ truthy(provider_name) \/ truthy_list(keywords_list))
    THEN query ELSE None

\* Lines 623-632: the arguments of client.search_datasets.
search_datasets_call(a) ==
    LET keywords_list == keywords_list_of(a.keywords)
    IN  [row_start |-> a.row_start, page_size |-> a.page_size, is_public |-> PyTrue,
         creator |-> a.creator, provider_name |-> a.provider_name,
         text |-> text_filter(a.query, a.creator, a.provider_name, keywords_list),
         date_published |-> a.date_published, keywords |-> keywords_list]

\* Lines 635-642: what is returned for the formatted answer.
search_datasets_return(formatted, format) ==
    IF format = "raw" \/ formatted.kind = "obj" THEN "json.dumps" ELSE "str"

SdKeywords ==
    {NoKeywords, Str(<<>>), Str(<<"k">>), List(<<>>), List(<<<<>>>>), List(<<<<"k">>>>), List(<<<<"k">>, <<"j">>>>)}
SdArgs ==
    [query : OptStrings, creator : OptStrings, provider_name : OptStrings,
     date_published : {None, <<"x">>}, keywords : SdKeywords,
     row_start : {1}, page_size : {25}, format : FormatTypes]
SdResponses == {EmptyDict, ("result" :> <<>>) @@ ("total" :> 0)}

SdNoCall ==
    [row_start |-> 0, page_size |-> 0, is_public |-> None, creator |-> None,
     provider_name |-> None, text |-> None, date_published |-> None, keywords |-> NoneList]

SdInit ==
    /\ sd_pc = "start"
    /\ sd_args \in SdArgs
    /\ sd_call = SdNoCall
    /\ sd_requests = <<>>
    /\ sd_result = "pending"

\* Lines 608-632: the arguments are prepared and the client sends its GET.
SdCall ==
    /\ sd_pc = "start"
    /\ sd_call' = search_datasets_call(sd_args)
    /\ sd_requests' = send(sd_requests, search_datasets_params(sd_call'))
    /\ sd_pc' = "sent"
    /\ UNCHANGED <<sd_args, sd_result, doiVars, sanVars, flmdVars, pgVars, toolVars, keyVars, clVars, fmtVars, cvVars, ccVars>>

\* Lines 634-642: the catalog answers and the formatted answer is returned.
SdAnswer ==
    /\ sd_pc = "sent"
    /\ \E resp \in SdResponses :
          sd_result' = search_datasets_return(format_results(resp, sd_args.format), sd_args.format)
    /\ sd_pc' = "done"
    /\ UNCHANGED <<sd_args, sd_call, sd_requests, doiVars, sanVars, flmdVars, pgVars, toolVars, keyVars, clVars, fmtVars, cvVars, ccVars>>

\* Lines 644-645: the call raised and the error text is returned.
SdRaises ==
    /\ sd_pc = "sent"
    /\ sd_result' = "error"
    /\ sd_pc' = "done"
    /\ UNCHANGED <<sd_args, sd_call, sd_requests, doiVars, sanVars, flmdVars, pgVars, toolVars, keyVars, clVars, fmtVars, cvVars, ccVars>>

SdNext == SdCall \/ SdAnswer \/ SdRaises

SdIdle ==
    /\ sd_pc = "idle"
    /\ sd_args = [query |-> None, creator |-> None, provider_name |-> None, date_published |-> None,
                  keywords |-> NoKeywords, row_start |-> 1, page_size |-> 25, format |-> "summary"]
    /\ sd_call = SdNoCall
    /\ sd_requests = <<>>
    /\ sd_result = "pending"

(***************************************************************************)
(* Two tool invocations of one server process running at once: each has    *)
(* its own arguments and locals, both use the client main() constructed,   *)
(* and their steps interleave at every request.                            *)
(***************************************************************************)
Invocations == {1, 2}
other(i) == CHOOSE j \in Invocations : j # i

\* Faulty variant: both invocations use one set of locals.
local_shared(i) == 1

\* Lines 895-897: all_results, current_row and pages_fetched are locals of
\* the call that assigns them.
local_of(i) == i

CcArgs ==
    {[tool |-> "get-dataset-permissions", max_pages |-> 0, row_start |-> 1, page_size |-> 25]}
    \cup {[tool |-> "search-ess-deepdive", max_pages |-> m, row_start |-> r, page_size |-> 25] :
             m \in {0, 2, MaxPages}, r \in RowStarts}

\* What the field index answers to a page request, and the catalog to a
\* permissions request.
CcPages ==
    {[has_results |-> TRUE, results |-> <<"r1">>, has_page_count |-> TRUE, pageCount |-> 2],
     [has_results |-> TRUE, results |-> <<"r2">>, has_page_count |-> TRUE, pageCount |-> 1],
     [has_results |-> FALSE, results |-> <<>>, has_page_count |-> TRUE, pageCount |-> 5]}
CcPermissions ==
    {[has_results |-> TRUE, results |-> <<p>>, has_page_count |-> FALSE, pageCount |-> 0] :
        p \in {"p1", "p2"}}

\* A GET as an invocation sends it.
cc_request(api, params, headers) == [api |-> api, params |-> params, headers |-> headers]
NoParams == [rowStart |-> 0, pageSize |-> 0]

\* Whether another invocation is between its first step and its return.
running(j) == cc_pc[j] \notin {"call", "done"}
step_of(i) == [cc_overlapped EXCEPT ![i] = @ \/ running(other(i))]

CcInit ==
    /\ cc_pc = [i \in Invocations |-> "call"]
    /\ cc_args \in [Invocations -> CcArgs]
    /\ cc_token \in {None, <<"t">>}
    /\ cc_headers = client_headers(cc_token)
    /\ cc_current_row = [i \in Invocations |-> 0]
    /\ cc_pages_fetched = [i \in Invocations |-> 0]
    /\ cc_all_results = [i \in Invocations |-> <<>>]
    /\ cc_requests = [i \in Invocations |-> <<>>]
    /\ cc_pages = [i \in Invocations |-> <<>>]
    /\ cc_raised = [i \in Invocations |-> FALSE]
    /\ cc_return = [i \in Invocations |-> NoReturn]
    /\ cc_overlapped = [i \in Invocations |-> FALSE]

\* The tool function is entered: lines 894-904 of the field-index search,
\* line 767 of the permissions tool.
CcStart(i) ==
    /\ cc_pc[i] = "call"
    /\ IF cc_args[i].tool = "get-dataset-permissions"
       THEN /\ cc_pc' = [cc_pc EXCEPT ![i] = "get"]
            /\ UNCHANGED <<cc_current_row, cc_pages_fetched, cc_all_results>>
       ELSE IF multi_page(cc_args[i].max_pages)
       THEN /\ cc_pc' = [cc_pc EXCEPT ![i] = "loop"]
            /\ cc_current_row' = [cc_current_row EXCEPT ![local_of(i)] = cc_args[i].row_start]
            /\ cc_pages_fetched' = [cc_pages_fetched EXCEPT ![local_of(i)] = 0]
            /\ cc_all_results' = [cc_all_results EXCEPT ![local_of(i)] = <<>>]
       ELSE /\ cc_pc' = [cc_pc EXCEPT ![i] = "single"]
            /\ UNCHANGED <<cc_current_row, cc_pages_fetched, cc_all_results>>
    /\ cc_overlapped' = step_of(i)
    /\ UNCHANGED <<cc_args, cc_token, cc_headers, cc_requests, cc_pages, cc_raised, cc_return,
                   doiVars, sanVars, flmdVars, pgVars, toolVars, keyVars, clVars, fmtVars, cvVars, sdVars>>

\* Lines 906-931, one iteration of the loop.
CcFetch(i) ==
    /\ cc_pc[i] = "loop"
    /\ loop_continues(cc_pages_fetched[local_of(i)], cc_args[i].max_pages)
    /\ cc_requests' = [cc_requests EXCEPT ![i] =
           send(@, cc_request("field_index", search_params(cc_current_row[local_of(i)], cc_args[i].page_size), EmptyDict))]
    /\ \E resp \in CcPages :
          /\ cc_pages' = [cc_pages EXCEPT ![i] = Append(@, resp)]
          /\ cc_all_results' = [cc_all_results EXCEPT ![local_of(i)] = extend_results(@, resp)]
          /\ IF no_more_pages(page_count_of(resp))
             THEN /\ cc_pc' = [cc_pc EXCEPT ![i] = "return"]
                  /\ UNCHANGED <<cc_pages_fetched, cc_current_row>>
             ELSE /\ cc_pages_fetched' = [cc_pages_fetched EXCEPT ![local_of(i)] = @ + 1]
                  /\ cc_current_row' = [cc_current_row EXCEPT ![local_of(i)] = @ + cc_args[i].page_size]
                  /\ UNCHANGED cc_pc
    /\ cc_overlapped' = step_of(i)
    /\ UNCHANGED <<cc_args, cc_token, cc_headers, cc_raised, cc_return,
                   doiVars, sanVars, flmdVars, pgVars, toolVars, keyVars, clVars, fmtVars, cvVars, sdVars>>

\* A request raises and the except clause returns the error payload: lines
\* 970-974 of the field-index search, 769-773 of the permissions tool.
CcRaises(i) ==
    /\ \/ /\ cc_pc[i] = "loop"
          /\ loop_continues(cc_pages_fetched[local_of(i)], cc_args[i].max_pages)
          /\ cc_requests' = [cc_requests EXCEPT ![i] =
                 send(@, cc_request("field_index", search_params(cc_current_row[local_of(i)], cc_args[i].page_size), EmptyDict))]
       \/ /\ cc_pc[i] = "single"
          /\ cc_requests' = [cc_requests EXCEPT ![i] =
                 send(@, cc_request("field_index", search_params(cc_args[i].row_start, cc_args[i].page_size), EmptyDict))]
       \/ /\ cc_pc[i] = "get"
          /\ cc_requests' = [cc_requests EXCEPT ![i] = send(@, cc_request("catalog", NoParams, cc_headers))]
    /\ cc_pc' = [cc_pc EXCEPT ![i] = "done"]
    /\ cc_raised' = [cc_raised EXCEPT ![i] = TRUE]
    /\ cc_return' = [cc_return EXCEPT ![i] = error_payload(cc_all_results[local_of(i)])]
    /\ cc_overlapped' = step_of(i)
    /\ UNCHANGED <<cc_args, cc_token, cc_headers, cc_current_row, cc_pages_fetched, cc_all_results, cc_pages,
                   doiVars, sanVars, flmdVars, pgVars, toolVars, keyVars, clVars, fmtVars, cvVars, sdVars>>

\* Lines 933-942: the combined payload.
CcReturn(i) ==
    /\ \/ cc_pc[i] = "return"
       \/ cc_pc[i] = "loop" /\ ~loop_continues(cc_pages_fetched[local_of(i)], cc_args[i].max_pages)
    /\ cc_pc' = [cc_pc EXCEPT ![i] = "done"]
    /\ cc_return' = [cc_return EXCEPT ![i] =
           [kind |-> "pages",
            results |-> cc_all_results[local_of(i)],
            total_results_fetched |-> Len(cc_all_results[local_of(i)]),
            pages_fetched |-> cc_pages_fetched[local_of(i)] + 1,
            next_row_start |-> 0]]
    /\ cc_overlapped' = step_of(i)
    /\ UNCHANGED <<cc_args, cc_token, cc_headers, cc_current_row, cc_pages_fetched, cc_all_results,
                   cc_requests, cc_pages, cc_raised,
                   doiVars, sanVars, flmdVars, pgVars, toolVars, keyVars, clVars, fmtVars, cvVars, sdVars>>

\* Lines 944-969: the single-page request.
CcSingle(i) ==
    /\ cc_pc[i] = "single"
    /\ cc_requests' = [cc_requests EXCEPT ![i] =
           send(@, cc_request("field_index", search_params(cc_args[i].row_start, cc_args[i].page_size), EmptyDict))]
    /\ \E resp \in CcPages :
          /\ cc_pages' = [cc_pages EXCEPT ![i] = Append(@, resp)]
          /\ cc_return' = [cc_return EXCEPT ![i] =
                 [kind |-> "single",
                  results |-> resp.results,
                  total_results_fetched |-> 0,
                  pages_fetched |-> 0,
                  next_row_start |->
                      IF page_count_of(resp) # 0 /\ page_count_of(resp) > 1
                      THEN cc_args[i].row_start + cc_args[i].page_size ELSE 0]]
    /\ cc_pc' = [cc_pc EXCEPT ![i] = "done"]
    /\ cc_overlapped' = step_of(i)
    /\ UNCHANGED <<cc_args, cc_token, cc_headers, cc_current_row, cc_pages_fetched, cc_all_results, cc_raised,
                   doiVars, sanVars, flmdVars, pgVars, toolVars, keyVars, clVars, fmtVars, cvVars, sdVars>>

\* Lines 767-768: the permissions request, sent with the client's headers,
\* and its answer returned.
CcGet(i) ==
    /\ cc_pc[i] = "get"
    /\ cc_requests' = [cc_requests EXCEPT ![i] = send(@, cc_request("catalog", NoParams, cc_headers))]
    /\ \E resp \in CcPermissions :
          /\ cc_pages' = [cc_pages EXCEPT ![i] = Append(@, resp)]
          /\ cc_return' = [cc_return EXCEPT ![i] = [NoReturn EXCEPT !.kind = "permissions", !.results = resp.results]]
    /\ cc_pc' = [cc_pc EXCEPT ![i] = "done"]
    /\ cc_overlapped' = step_of(i)
    /\ UNCHANGED <<cc_args, cc_token, cc_headers, cc_current_row, cc_pages_fetched, cc_all_results, cc_raised,
                   doiVars, sanVars, flmdVars, pgVars, toolVars, keyVars, clVars, fmtVars, cvVars, sdVars>>

CcNext ==
    \E i \in Invocations :
        CcStart(i) \/ CcFetch(i) \/ CcRaises(i) \/ CcReturn(i) \/ CcSingle(i) \/ CcGet(i)

CcIdle ==
    /\ cc_pc = [i \in Invocations |-> "idle"]
    /\ cc_args = [i \in Invocations |-> [tool |-> "get-dataset-permissions", max_pages |-> 0, row_start |-> 1, page_size |-> 25]]
    /\ cc_token = None
    /\ cc_headers = EmptyDict
    /\ cc_current_row = [i \in Invocations |-> 0]
    /\ cc_pages_fetched = [i \in Invocations |-> 0]
    /\ cc_all_results = [i \in Invocations |-> <<>>]
    /\ cc_requests = [i \in Invocations |-> <<>>]
    /\ cc_pages = [i \in Invocations |-> <<>>]
    /\ cc_raised = [i \in Invocations |-> FALSE]
    /\ cc_return = [i \in Invocations |-> NoReturn]
    /\ cc_overlapped = [i \in Invocations |-> FALSE]

DoiIdle ==
    /\ doi_pc = "idle"
    /\ doi_form = <<>>
    /\ doi_body = <<>>
    /\ identifier = <<>>
    /\ normalized = <<>>
    /\ renormalized = <<>>

SanIdle ==
    /\ san_pc = "idle"
    /\ san_value = [kind |-> "none"]
    /\ san_out = <<>>
    /\ san_out2 = <<>>

FlmdIdle ==
    /\ flmd_pc = "idle"
    /\ fieldnames = [kind |-> "eof", cells |-> <<>>]
    /\ flmd_remaining = 0
    /\ filename_col = None
    /\ description_col = None
    /\ filename = None
    /\ description = None
    /\ file_descriptions = {}
    /\ flmd_rows_read = 0
    /\ flmd_raised = FALSE
    /\ flmd_result = [kind |-> "pending", value |-> {}]
    /\ flmd_row = [kind |-> "none", cells |-> <<>>]

DoiNext == Normalize \/ Renormalize

InitDoi == DoiInit /\ SanIdle /\ FlmdIdle /\ PgIdle /\ ToolIdle /\ KeyIdle /\ ClIdle /\ FmtIdle /\ CvIdle /\ SdIdle /\ CcIdle

SpecDoi == InitDoi /\ [][DoiNext]_vars

\* C1: every form of a DOI suffix 10.X (bare, doi:, https://doi.org/,
\* http://doi.org/, doi.org/), with any whitespace around it, is normalized to
\* exactly doi:10.X.
C1_AllFormsGiveDoiPrefix ==
    (doi_pc # "start" /\ IsDoiSuffix(doi_body)) => normalized = DoiColon \o doi_body

\* C2: _normalize_doi is idempotent: normalizing a normalized DOI changes nothing.
C2_NormalizeIdempotent ==
    doi_pc = "done" => renormalized = normalized

InitSanitize == SanInit /\ DoiIdle /\ FlmdIdle /\ PgIdle /\ ToolIdle /\ KeyIdle /\ ClIdle /\ FmtIdle /\ CvIdle /\ SdIdle /\ CcIdle

SpecSanitize == InitSanitize /\ [][SanNext]_vars

InitFlmd == FlmdInit /\ DoiIdle /\ SanIdle /\ PgIdle /\ ToolIdle /\ KeyIdle /\ ClIdle /\ FmtIdle /\ CvIdle /\ SdIdle /\ CcIdle

InitPage == PgInit /\ DoiIdle /\ SanIdle /\ FlmdIdle /\ ToolIdle /\ KeyIdle /\ ClIdle /\ FmtIdle /\ CvIdle /\ SdIdle /\ CcIdle

InitTool == ToolInit /\ DoiIdle /\ SanIdle /\ FlmdIdle /\ PgIdle /\ KeyIdle /\ ClIdle /\ FmtIdle /\ CvIdle /\ SdIdle /\ CcIdle

SpecTool == InitTool /\ [][ToolNext]_vars

SpecPage == InitPage /\ [][PgNext]_vars

SpecFlmd == InitFlmd /\ [][FlmdNext]_vars

\* The number a string of decimal digits (after an optional minus sign) denotes.
RECURSIVE nat_of(_)
nat_of(s) ==
    IF s = <<>> THEN 0
    ELSE 10 * nat_of(SubSeq(s, 1, Len(s) - 1))
         + (CHOOSE d \in 0..9 : Digit(d) = s[Len(s)])

int_of(s) == IF s # <<>> /\ Head(s) = "-" THEN -nat_of(Tail(s)) ELSE nat_of(s)

\* A single-line trimmed string: no carriage return, newline or tab, no two
\* adjacent whitespace characters, no whitespace at either end.
SingleLineTrimmed(s) ==
    /\ \A i \in 1..Len(s) : s[i] \notin {"\r", "\n", "\t"}
    /\ \A i \in 1..(Len(s) - 1) : ~(IsWs(s[i]) /\ IsWs(s[i + 1]))
    /\ s # <<>> => (~IsWs(s[1]) /\ ~IsWs(s[Len(s)]))

\* C10: sanitize_tsv_field returns a single-line trimmed string for every
\* input: None gives the empty string, a number gives its decimal text, and the
\* output has no CR, LF or tab, no two adjacent whitespace characters and no
\* whitespace at either end.
C10_SanitizeSingleLine ==
    san_pc \in {"sanitized", "done"} =>
        /\ san_value.kind = "none" => san_out = <<>>
        /\ san_value.kind = "int" => int_of(san_out) = san_value.n
        /\ SingleLineTrimmed(san_out)

\* A string with a tab and a whitespace run inside it has been sanitized to a
\* non-empty result.
C10_Witness ==
    /\ san_pc = "sanitized"
    /\ san_value.kind = "str"
    /\ \E i \in 1..(Len(san_value.s) - 1) :
           san_value.s[i] = "\t" /\ IsWs(san_value.s[i + 1])
    /\ Len(san_out) >= 3

\* C7: parse_flmd_file never raises: the step that ends the parse returns a
\* mapping, and when it ends on an error the mapping returned is exactly what
\* the rows before the error had accumulated.
C7_ParseNeverRaises ==
    [][(flmd_pc # "done" /\ flmd_pc' = "done") =>
          /\ flmd_result'.kind = "mapping"
          /\ flmd_raised' => flmd_result'.value = file_descriptions]_vars

\* An error on a data row, after earlier rows had put entries in the mapping.
C7_Witness ==
    /\ flmd_pc = "done"
    /\ flmd_raised
    /\ flmd_rows_read >= 2
    /\ file_descriptions # {}
    /\ flmd_result = [kind |-> "mapping", value |-> file_descriptions]

\* C8: at every point of the parse and in the mapping returned, every key is a
\* non-empty filename without whitespace at its ends and every value is a
\* non-empty sanitized description.
C8_EntriesNonEmpty ==
    \A p \in file_descriptions \cup flmd_result.value :
        /\ p[1] # <<>>
        /\ strip(p[1]) = p[1]
        /\ p[2] # <<>>
        /\ SingleLineTrimmed(p[2])

\* Two entries are held, and the row just processed had an empty filename.
C8_Witness ==
    /\ flmd_pc = "rows"
    /\ Cardinality(file_descriptions) = 2
    /\ filename = <<>>
    /\ description # <<>>

\* Whether some header normalizes to one of keys.
HasCol(keys) ==
    /\ fieldnames.kind = "row"
    /\ \E i \in 1..Len(fieldnames.cells) : _norm_header_key(fieldnames.cells[i]) \in keys

\* C9: when the header row has no recognizable filename column or no
\* recognizable description column, the parse ends at once with the empty
\* mapping and reads no data row.
C9_MissingColumnGivesEmpty ==
    (flmd_pc # "start" /\ ~(HasCol(FilenameKeys) /\ HasCol(DescriptionKeys))) =>
        /\ flmd_pc = "done"
        /\ flmd_rows_read = 0
        /\ file_descriptions = {}
        /\ flmd_result = [kind |-> "mapping", value |-> {}]

\* A header with a filename column and no description column, data rows left
\* unread.
C9_Witness ==
    /\ flmd_pc = "done"
    /\ HasCol(FilenameKeys)
    /\ ~HasCol(DescriptionKeys)
    /\ flmd_remaining > 0
    /\ flmd_result = [kind |-> "mapping", value |-> {}]

\* A response after which no further page is asked for.
LastPage(resp) == ~resp.has_page_count \/ resp.pageCount <= 1

\* C3: the multi-page search sends its requests one after another, stops after
\* the first response whose pageCount is missing or at most 1 or once max_pages
\* requests have been sent, and so sends at least one and at most max_pages
\* requests and then ends.
C3_PageLoopBounded ==
    multi_page(max_pages) =>
        /\ Len(pg_requests) <= max_pages
        /\ Len(pg_requests) - Len(pg_pages) \in {0, 1}
        /\ Len(pg_requests) # Len(pg_pages) => pg_return.kind = "error"
        /\ \A i \in 1..(Len(pg_pages) - 1) : ~LastPage(pg_pages[i])
        /\ (pg_pages # <<>> /\ LastPage(pg_pages[Len(pg_pages)])) => pg_pc \in {"return", "done"}
        /\ pg_pc \in {"return", "done"} => Len(pg_requests) >= 1
        /\ (pg_pc = "done" /\ pg_return.kind = "pages") =>
               \/ LastPage(pg_pages[Len(pg_pages)])
               \/ Len(pg_requests) = max_pages
        /\ pg_pc = "done" \/ ENABLED PgNext

\* The search ended because max_pages requests had been sent, the last response
\* still reporting more pages.
C3_Witness ==
    /\ pg_pc = "done"
    /\ pg_return.kind = "pages"
    /\ max_pages >= 3
    /\ Len(pg_requests) = max_pages
    /\ ~LastPage(pg_pages[Len(pg_pages)])

\* The 'results' lists of the pages, in fetch order, one after another.
RECURSIVE ConcatResults(_)
ConcatResults(pages) ==
    IF pages = <<>> THEN <<>>
    ELSE (IF Head(pages).has_results THEN Head(pages).results ELSE <<>>)
         \o ConcatResults(Tail(pages))

\* C4: the multi-page search returns the concatenation, in fetch order, of the
\* 'results' lists of the pages fetched, and total_results_fetched is its length.
C4_ResultsConcatenated ==
    (pg_pc = "done" /\ pg_return.kind = "pages") =>
        /\ pg_return.results = ConcatResults(pg_pages)
        /\ pg_return.total_results_fetched = Len(ConcatResults(pg_pages))

\* Three pages were fetched, the second without a 'results' key.
C4_Witness ==
    /\ pg_pc = "done"
    /\ pg_return.kind = "pages"
    /\ Len(pg_pages) = 3
    /\ pg_pages[1].results = <<"r1">>
    /\ ~pg_pages[2].has_results
    /\ pg_pages[3].results = <<"r2", "r1">>
    /\ pg_return.results = <<"r1", "r2", "r1">>

\* C5: the first request starts at the caller's row_start and each later
\* request starts where the previous one ended: at the previous rowStart plus
\* the pageSize the previous request sent.
C5_ContiguousRows ==
    multi_page(max_pages) =>
        /\ pg_requests # <<>> => pg_requests[1].rowStart = row_start
        /\ \A i \in 1..(Len(pg_requests) - 1) :
               pg_requests[i + 1].rowStart = pg_requests[i].rowStart + pg_requests[i].pageSize

\* C6: every tool returns a string whatever its network calls do: an exception
\* raised in the body gives a JSON object whose only key is 'error' or a text
\* beginning 'Error', and no exception leaves the tool.
C6_ToolsReturnStrings ==
    tool_pc = "done" =>
        /\ tool_result.is_str
        /\ tool_result # Propagated
        /\ tool_exc # "none" =>
               \/ tool_result.form = "json" /\ tool_result.keys = {"error"}
               \/ tool_result.form = "text"
                  /\ startswith(tool_result.text, <<"E","r","r","o","r">>)

\* The request of search-ess-deepdive failed with a non-2xx status and the tool
\* returned its error object.
C6_Witness ==
    /\ tool_pc = "done"
    /\ tool = "search-ess-deepdive"
    /\ tool_exc = "HTTPStatusError"
    /\ tool_result.form = "json"
    /\ tool_result.keys = {"error"}

InitKey == KeyInit /\ DoiIdle /\ SanIdle /\ FlmdIdle /\ PgIdle /\ ToolIdle /\ ClIdle /\ FmtIdle /\ CvIdle /\ SdIdle /\ CcIdle

SpecKey == InitKey /\ [][KeyNext]_vars

\* The value a source supplies, None when it supplies none: an argument or
\* environment variable that is unset or empty, a token file that is not named
\* or whose trimmed contents are empty.
supplied(s) == IF s = None \/ s = <<>> THEN None ELSE s

file_supplies(tf) == IF tf.kind = "file" THEN supplied(strip(tf.contents)) ELSE None

\* C11: get_api_key returns the value of the first source that supplies one, in
\* the order explicit argument, trimmed token file, environment variable, and
\* raises ValueError when none does (token files that cannot be read aside).
C11_KeyPrecedence ==
    (key_pc = "done" /\ token_file.kind # "unreadable") =>
        LET sources == <<supplied(api_key), file_supplies(token_file), supplied(env_token)>>
            first == IF sources[1] # None THEN sources[1]
                     ELSE IF sources[2] # None THEN sources[2] ELSE sources[3]
        IN  IF first = None
            THEN key_result.kind = "raise" /\ key_result.exc = "ValueError"
            ELSE key_result.kind = "value" /\ key_result.value = first

InitClient == ClInit /\ DoiIdle /\ SanIdle /\ FlmdIdle /\ PgIdle /\ ToolIdle /\ KeyIdle /\ FmtIdle /\ CvIdle /\ SdIdle /\ CcIdle

SpecClient == InitClient /\ [][ClNext]_vars

\* The query parameters and headers of the one request a call has sent.
sent_request == cl_requests[1]

\* C12 as stated: every GET to either API carries Authorization: Bearer <token>
\* when a credential is held, and no Authorization header when none is held.
C12_EveryGetAuthorized ==
    \A i \in 1..Len(cl_requests) :
        LET h == cl_requests[i].headers
        IN  IF cl_token # None /\ cl_token # <<>>
            THEN "Authorization" \in DOMAIN h
                 /\ h["Authorization"] = <<"B", "e", "a", "r", "e", "r", " ">> \o cl_token
            ELSE "Authorization" \notin DOMAIN h

\* C12, amended: every GET to the catalog carries Authorization: Bearer <token>
\* when a credential is held and no Authorization header when none is held;
\* a GET to the field index carries no Authorization header in either case.
C12_CatalogGetAuthorized ==
    \A i \in 1..Len(cl_requests) :
        LET h == cl_requests[i].headers
        IN  IF cl_requests[i].api = "catalog" /\ cl_token # None /\ cl_token # <<>>
            THEN "Authorization" \in DOMAIN h
                 /\ h["Authorization"] = <<"B", "e", "a", "r", "e", "r", " ">> \o cl_token
            ELSE "Authorization" \notin DOMAIN h

C12_Witness ==
    /\ cl_pc = "sent"
    /\ cl_op = "get_dataset_status"
    /\ cl_token = <<"t">>
    /\ sent_request.api = "catalog"
    /\ sent_request.headers["Authorization"] = <<"B", "e", "a", "r", "e", "r", " ", "t">>

\* C13: search_ess_deepdive sends pageSize = min(page_size, 100): never more
\* than 100, and the requested value when that is at most 100.
C13_PageSizeClamped ==
    (cl_op = "search_ess_deepdive" /\ cl_pc # "start") =>
        /\ sent_request.params["pageSize"] <= 100
        /\ cl_args.page_size <= 100 => sent_request.params["pageSize"] = cl_args.page_size
        /\ cl_args.page_size > 100 => sent_request.params["pageSize"] = 100

C13_Witness ==
    /\ cl_op = "search_ess_deepdive"
    /\ cl_pc = "sent"
    /\ cl_args.page_size = 200
    /\ sent_request.params["pageSize"] = 100

\* C14: for a non-empty DOI list of n entries search_ess_deepdive sends the
\* first min(n, 100) entries in their order; a list of at most 100 entries is
\* sent unchanged.
C14_DoiListClamped ==
    (cl_op = "search_ess_deepdive" /\ cl_pc # "start" /\ cl_args.doi # NoneList
        /\ cl_args.doi # <<>>) =>
        /\ "doi" \in DOMAIN sent_request.params
        /\ LET given == cl_args.doi
               sent == sent_request.params["doi"]
           IN  /\ Len(sent) = (IF Len(given) <= 100 THEN Len(given) ELSE 100)
               /\ \A i \in 1..Len(sent) : sent[i] = given[i]
               /\ Len(given) <= 100 => sent = given

C14_Witness ==
    /\ cl_op = "search_ess_deepdive"
    /\ cl_pc = "sent"
    /\ Len(cl_args.doi) = 150
    /\ Len(sent_request.params["doi"]) = 100
    /\ sent_request.params["doi"][100] = cl_args.doi[100]

\* A string argument that is neither None nor empty.
given_str(s) == s # None /\ s # <<>>

\* C17: search_datasets always sends rowStart and pageSize, sends each of
\* isPublic, creator, providerName, text, datePublished and keywords exactly
\* when its argument is non-null (isPublic) or non-empty, and sends isPublic
\* as 'true' for True and 'false' for False.
C17_SearchDatasetsParams ==
    (cl_op = "search_datasets" /\ cl_pc # "start") =>
        LET p == sent_request.params
            a == cl_args
            sends(k, cond, v) == IF cond THEN k \in DOMAIN p /\ p[k] = v ELSE k \notin DOMAIN p
        IN  /\ p["rowStart"] = a.row_start
            /\ p["pageSize"] = a.page_size
            /\ sends("isPublic", a.is_public # None,
                     IF a.is_public = PyTrue THEN <<"t", "r", "u", "e">> ELSE <<"f", "a", "l", "s", "e">>)
            /\ sends("creator", given_str(a.creator), a.creator)
            /\ sends("providerName", given_str(a.provider_name), a.provider_name)
            /\ sends("text", given_str(a.text), a.text)
            /\ sends("datePublished", given_str(a.date_published), a.date_published)
            /\ sends("keywords", a.keywords # NoneList /\ a.keywords # <<>>, a.keywords)
            /\ DOMAIN p \subseteq {"rowStart", "pageSize", "isPublic", "creator", "providerName",
                                   "text", "datePublished", "keywords"}

C17_Witness ==
    /\ cl_op = "search_datasets"
    /\ cl_pc = "sent"
    /\ cl_args.is_public = PyFalse
    /\ cl_args.creator = <<>>
    /\ cl_args.text = <<"x">>
    /\ DOMAIN sent_request.params = {"rowStart", "pageSize", "isPublic", "text"}
    /\ sent_request.params["isPublic"] = <<"f", "a", "l", "s", "e">>

\* The number of times 'doi:' is repeated at the start of a string.
RECURSIVE leading_doi_prefixes(_)
leading_doi_prefixes(s) ==
    IF Len(s) >= 4 /\ SubSeq(s, 1, 4) = <<"d", "o", "i", ":">>
    THEN 1 + leading_doi_prefixes(SubSeq(s, 5, Len(s)))
    ELSE 0

C20_NoRetries ==
    /\ [](/\ cl_pc = "start" => Len(cl_requests) = 0
          /\ cl_pc \in {"sent", "done"} => Len(cl_requests) = 1)
    /\ [][cl_pc = "sent" =>
            /\ cl_pc' = "done"
            /\ cl_requests' = cl_requests
            /\ cl_result'.kind \in {"return", "raise"}]_vars
    /\ [][cl_pc = "done" => cl_requests' = cl_requests]_vars

C20_Witness ==
    /\ cl_pc = "done"
    /\ cl_op = "search_ess_deepdive"
    /\ cl_result = [kind |-> "raise", exc |-> "HTTPStatusError"]
    /\ Len(cl_requests) = 1

InitFormat == FmtInit /\ DoiIdle /\ SanIdle /\ FlmdIdle /\ PgIdle /\ ToolIdle /\ KeyIdle /\ ClIdle /\ CvIdle /\ SdIdle /\ CcIdle

SpecFormat == InitFormat /\ [][FmtNext]_vars

\* C15: with format_type 'raw' format_results returns its input unchanged,
\* whether or not the input has a 'result' key.
C15_RawReturnsInput ==
    (fmt_pc = "done" /\ format_type = "raw") =>
        fmt_out.kind = "obj" /\ fmt_out.value = fmt_results

C15_Witness ==
    /\ fmt_pc = "done"
    /\ format_type = "raw"
    /\ "result" \notin DOMAIN fmt_results
    /\ "total" \in DOMAIN fmt_results
    /\ fmt_out.kind = "obj"

\* C16: with format_type 'summary' or 'detailed' format_results returns the
\* string 'No results found or invalid response format.' for every input
\* that has no 'result' key.
C16_NoResultKeyMessage ==
    (fmt_pc = "done" /\ format_type \in {"summary", "detailed"}
        /\ "result" \notin DOMAIN fmt_results) =>
        /\ fmt_out.kind = "str"
        /\ fmt_out.value = <<"N", "o", " ", "r", "e", "s", "u", "l", "t", "s", " ", "f", "o", "u", "n", "d", " ", "o", "r", " ", "i", "n", "v", "a", "l", "i", "d", " ", "r", "e", "s", "p", "o", "n", "s", "e", " ", "f", "o", "r", "m", "a", "t", ".">>

C16_Witness ==
    /\ fmt_pc = "done"
    /\ format_type = "detailed"
    /\ "result" \notin DOMAIN fmt_results
    /\ "results" \in DOMAIN fmt_results
    /\ fmt_out.kind = "str"

InitConvert == CvInit /\ DoiIdle /\ SanIdle /\ FlmdIdle /\ PgIdle /\ ToolIdle /\ KeyIdle /\ ClIdle /\ FmtIdle /\ SdIdle /\ CcIdle

SpecConvert == InitConvert /\ [][CvNext]_vars

\* A value of the response that is there and not empty.
present(d, k) == k \in DOMAIN d /\ d[k] # None /\ d[k] # <<>>

\* The response holds what the function is to return.
answers ==
    /\ cv_response.kind = "json"
    /\ IF cv_op = "doi_to_essdive_id"
       THEN present(cv_response.json, "id")
       ELSE "dataset" \in DOMAIN cv_response.json /\ present(cv_response.json["dataset"], "doi")

\* C19: doi_to_essdive_id looks the dataset up under the normalized DOI and
\* returns the response's 'id'; essdive_id_to_doi returns the response's
\* dataset DOI in normalized, 'doi:'-prefixed form; a missing or empty id or
\* DOI, an HTTP error and a transport error all end in ValueError, and no
\* other exception type leaves either function.
C19_ConversionsRaiseValueError ==
    /\ (cv_pc \in {"waiting", "done"} /\ cv_lookup # None /\ cv_op = "doi_to_essdive_id") =>
           /\ cv_lookup = _normalize_doi(cv_arg)
           /\ SubSeq(cv_lookup, 1, 4) = <<"d", "o", "i", ":">>
    /\ cv_pc = "done" =>
           IF answers
           THEN /\ cv_result.kind = "return"
                /\ IF cv_op = "doi_to_essdive_id"
                   THEN cv_result.value = cv_response.json["id"]
                   ELSE /\ cv_result.value = _normalize_doi(cv_response.json["dataset"]["doi"])
                        /\ SubSeq(cv_result.value, 1, 4) = <<"d", "o", "i", ":">>
           ELSE cv_result.kind = "raise" /\ cv_result.exc = "ValueError"

C19_Witness ==
    /\ cv_pc = "done"
    /\ cv_op = "essdive_id_to_doi"
    /\ cv_response.kind = "raise"
    /\ cv_response.exc = "HTTPStatusError"
    /\ cv_result.kind = "raise"
    /\ cv_result.exc = "ValueError"

\* s without its first n characters.
drop_first(s, n) == SubSeq(s, n + 1, Len(s))

\* p is at the very start of s.
leads(s, p) == Len(s) >= Len(p) /\ SubSeq(s, 1, Len(p)) = p

\* C22: with R the trimmed input less the first of 'https://doi.org/',
\* 'http://doi.org/', 'doi.org/' that it starts with (every other character
\* kept), _normalize_doi returns R when R starts with 'doi:' and 'doi:' + R
\* otherwise.
C22_StripsOneLeadingPrefix ==
    doi_pc # "start" =>
        LET s == strip(identifier)
            R == IF leads(s, <<"h", "t", "t", "p", "s", ":", "/", "/", "d", "o", "i", ".", "o", "r", "g", "/">>) THEN drop_first(s, 16)
                 ELSE IF leads(s, <<"h", "t", "t", "p", ":", "/", "/", "d", "o", "i", ".", "o", "r", "g", "/">>) THEN drop_first(s, 15)
                 ELSE IF leads(s, <<"d", "o", "i", ".", "o", "r", "g", "/">>) THEN drop_first(s, 8)
                 ELSE s
        IN  normalized = (IF leads(R, <<"d", "o", "i", ":">>) THEN R ELSE <<"d", "o", "i", ":">> \o R)

\* C27: sanitize_tsv_field is idempotent: a second call, on the result of the
\* first, returns that result unchanged.
C27_SanitizeIdempotent ==
    san_pc = "done" => san_out2 = san_out

C27_Witness ==
    /\ san_pc = "done"
    /\ san_value.kind = "str"
    /\ Len(san_value.s) = 5
    /\ san_out = <<"a", " ", "b">>
    /\ san_out2 = <<"a", " ", "b">>

\* The trimmed cell a data row holds under a header, empty when the row is too
\* short to have one.
trimmed_cell(header, cells, col) ==
    LET at == {i \in 1..Len(header) : header[i] = col}
        i == CHOOSE k \in at : \A j \in at : j <= k
    IN  IF i <= Len(cells) THEN strip(cells[i]) ELSE <<>>

\* C23: every data row is processed, whatever its number of cells: reading a
\* row never ends the parse; a row whose trimmed filename or description is
\* empty or absent leaves the mapping as it is, and any other row sets
\* filename -> sanitized description, replacing an earlier entry of that
\* filename.
C23_EveryRowProcessed ==
    [][(flmd_pc = "rows" /\ flmd_remaining' = flmd_remaining - 1
            /\ flmd_row'.kind = "row" /\ flmd_row'.cells # <<>>) =>
        LET f == trimmed_cell(fieldnames.cells, flmd_row'.cells, filename_col)
            d == trimmed_cell(fieldnames.cells, flmd_row'.cells, description_col)
        IN  /\ flmd_pc' = "rows"
            /\ file_descriptions' =
                   IF f = <<>> \/ d = <<>> THEN file_descriptions
                   ELSE {e \in file_descriptions : e[1] # f}
                            \cup {<<f, sanitize_tsv_field([kind |-> "str", s |-> d])>>}]_vars

\* The last header whose normalized form is one of the keys, None without one.
last_match(header, keys) ==
    LET at == {i \in 1..Len(header) : _norm_header_key(header[i]) \in keys}
    IN  IF at = {} THEN None ELSE header[CHOOSE k \in at : \A j \in at : j <= k]

\* C26: a header that is 'filename' or 'name' once lower-cased and stripped of
\* every character but ASCII letters and digits is a filename column, one that
\* is 'filedescription' or 'description' a description column; of several
\* headers of one role the last in header order is the column used.
C26_LastMatchingHeader ==
    (flmd_pc \in {"rows", "done"} /\ fieldnames.kind = "row" /\ fieldnames.cells # <<>>) =>
        /\ filename_col = last_match(fieldnames.cells, {<<"f", "i", "l", "e", "n", "a", "m", "e">>, <<"n", "a", "m", "e">>})
        /\ description_col = last_match(fieldnames.cells, {<<"f", "i", "l", "e", "d", "e", "s", "c", "r", "i", "p", "t", "i", "o", "n">>, <<"d", "e", "s", "c", "r", "i", "p", "t", "i", "o", "n">>})

C26_Witness ==
    /\ flmd_pc = "rows"
    /\ fieldnames.cells = <<<<"n", "a", "m", "e">>, <<"d", "e", "s", "c", "r", "i", "p", "t", "i", "o", "n">>, <<"F", "i", "l", "e", "N", "a", "m", "e">>>>
    /\ filename_col = <<"F", "i", "l", "e", "N", "a", "m", "e">>
    /\ description_col = <<"d", "e", "s", "c", "r", "i", "p", "t", "i", "o", "n">>

\* C24: when the k-th page request of a multi-page search raises, the tool is
\* done having issued exactly k requests, and the error payload it returns
\* holds none of the items collected from pages 1..k-1.
C24_ErrorDiscardsPartialResults ==
    (pg_return.kind = "error" /\ multi_page(max_pages)) =>
        /\ pg_pc = "done"
        /\ Len(pg_requests) = Len(pg_pages) + 1
        /\ pg_return.results = <<>>
        /\ pg_return.total_results_fetched = 0

C24_Witness ==
    /\ pg_return.kind = "error"
    /\ multi_page(max_pages)
    /\ Len(pg_pages) = 2
    /\ Len(pg_requests) = 3
    /\ all_results # <<>>

\* C25: the pages_fetched value of the combined payload is the number of page
\* requests the invocation issued, on both exits of the loop.
C25_PagesFetchedCountsRequests ==
    pg_return.kind = "pages" => pg_return.pages_fetched = Len(pg_requests)

\* The lines of a text whose every line ends with a line feed, in order, that
\* satisfy a test on the text and the line's first position.
line_starts(s) == {p \in 1..Len(s) : p = 1 \/ s[p - 1] = "\n"}
line_from(s, p) ==
    LET ends == {q \in p..Len(s) : s[q] = "\n"}
    IN  SubSeq(s, p, (CHOOSE q \in ends : \A r \in ends : q <= r) - 1)
lines_at(s, starts) ==
    [i \in 1..Cardinality(starts) |->
        line_from(s, CHOOSE p \in starts : Cardinality({q \in starts : q < p}) = i - 1)]
numbered_lines(s) == lines_at(s, {p \in line_starts(s) : s[p] \in Digits})
labelled_lines(s, label) ==
    lines_at(s, {p \in line_starts(s) : leads(SubSeq(s, p, Len(s)), label)})

\* What is shown for a key of an object: its value, or a text when it is missing.
shown_or(d, k, absent) == IF k \in DOMAIN d THEN d[k] ELSE absent
nested_of(item) == IF "dataset" \in DOMAIN item THEN item["dataset"] ELSE EmptyDict

\* C28: in 'summary' and 'detailed' mode, whichever of the keys 'dataset',
\* 'id', 'viewUrl', 'name', 'datePublished', 'description' and 'keywords' the
\* items of 'result' lack, format_results returns a string with one numbered
\* entry per item, numbered 1..n in input order, where a missing name reads
\* 'Untitled' and a missing id, publication date or view URL reads 'Unknown'.
C28_MissingKeysRenderDefaults ==
    (fmt_pc = "done" /\ format_type \in {"summary", "detailed"} /\ "result" \in DOMAIN fmt_results) =>
        LET items == fmt_results["result"]
            n == Len(items)
        IN  /\ fmt_out.kind = "str"
            /\ numbered_lines(fmt_out.value) =
                   [i \in 1..n |-> str_nat(i) \o <<".", " ">> \o shown_or(nested_of(items[i]), "name", <<"U", "n", "t", "i", "t", "l", "e", "d">>)]
            /\ labelled_lines(fmt_out.value, <<" ", " ", " ", "I", "D", ":", " ">>) =
                   [i \in 1..n |-> <<" ", " ", " ", "I", "D", ":", " ">> \o shown_or(items[i], "id", <<"U", "n", "k", "n", "o", "w", "n">>)]
            /\ labelled_lines(fmt_out.value, <<" ", " ", " ", "P", "u", "b", "l", "i", "s", "h", "e", "d", ":", " ">>) =
                   [i \in 1..n |-> <<" ", " ", " ", "P", "u", "b", "l", "i", "s", "h", "e", "d", ":", " ">> \o shown_or(nested_of(items[i]), "datePublished", <<"U", "n", "k", "n", "o", "w", "n">>)]
            /\ labelled_lines(fmt_out.value, <<" ", " ", " ", "U", "R", "L", ":", " ">>) =
                   [i \in 1..n |-> <<" ", " ", " ", "U", "R", "L", ":", " ">> \o shown_or(items[i], "viewUrl", <<"U", "n", "k", "n", "o", "w", "n">>)]

C28_Witness ==
    /\ fmt_pc = "done"
    /\ format_type = "detailed"
    /\ "result" \in DOMAIN fmt_results
    /\ Len(fmt_results["result"]) = 2
    /\ fmt_results["result"][1] = EmptyDict
    /\ DOMAIN fmt_results["result"][2] = {"dataset"}
    /\ DOMAIN fmt_results["result"][2]["dataset"] = {"description", "keywords"}
    /\ numbered_lines(fmt_out.value) = <<<<"1", ".", " ", "U", "n", "t", "i", "t", "l", "e", "d">>, <<"2", ".", " ", "U", "n", "t", "i", "t", "l", "e", "d">>>>
    /\ labelled_lines(fmt_out.value, <<" ", " ", " ", "U", "R", "L", ":", " ">>) = <<<<" ", " ", " ", "U", "R", "L", ":", " ", "U", "n", "k", "n", "o", "w", "n">>, <<" ", " ", " ", "U", "R", "L", ":", " ", "U", "n", "k", "n", "o", "w", "n">>>>

\* The text of an item's description: a list's strings with single spaces
\* between them, the empty text when the key is missing.
description_text(item) ==
    LET ds_data == nested_of(item)
    IN  IF "description" \notin DOMAIN ds_data THEN <<>>
        ELSE IF ds_data["description"].t = "list"
        THEN LET parts == ds_data["description"].v
             IN  Flatten([i \in 1..Len(parts) |-> IF i = 1 THEN parts[i] ELSE <<" ">> \o parts[i]])
        ELSE ds_data["description"].v

\* C29: in 'detailed' mode a description of at most 300 characters is shown
\* whole and without an ellipsis, a longer one as its first 300 characters
\* followed by '...', and an empty or missing one gives no description line.
C29_DescriptionTruncatedAt300 ==
    (fmt_pc = "done" /\ format_type = "detailed" /\ "result" \in DOMAIN fmt_results) =>
        LET items == fmt_results["result"]
            expected(text) ==
                IF text = <<>> THEN <<>>
                ELSE IF Len(text) <= 300 THEN <<<<" ", " ", " ", "D", "e", "s", "c", "r", "i", "p", "t", "i", "o", "n", ":", " ">> \o text>>
                ELSE <<<<" ", " ", " ", "D", "e", "s", "c", "r", "i", "p", "t", "i", "o", "n", ":", " ">> \o SubSeq(text, 1, 300) \o <<".", ".", ".">>>>
        IN  labelled_lines(fmt_out.value, <<" ", " ", " ", "D", "e", "s", "c", "r", "i", "p", "t", "i", "o", "n", ":", " ">>) =
                Flatten([i \in 1..Len(items) |-> expected(description_text(items[i]))])

C29_Witness ==
    /\ fmt_pc = "done"
    /\ format_type = "detailed"
    /\ "result" \in DOMAIN fmt_results
    /\ Len(fmt_results["result"]) = 2
    /\ Len(description_text(fmt_results["result"][1])) = 300
    /\ Len(description_text(fmt_results["result"][2])) = 301
    /\ labelled_lines(fmt_out.value, <<" ", " ", " ", "D", "e", "s", "c", "r", "i", "p", "t", "i", "o", "n", ":", " ">>) =
           <<<<" ", " ", " ", "D", "e", "s", "c", "r", "i", "p", "t", "i", "o", "n", ":", " ">> \o text_of(300), <<" ", " ", " ", "D", "e", "s", "c", "r", "i", "p", "t", "i", "o", "n", ":", " ">> \o text_of(300) \o <<".", ".", ".">>>>

InitSearch == SdInit /\ DoiIdle /\ SanIdle /\ FlmdIdle /\ PgIdle /\ ToolIdle /\ KeyIdle /\ ClIdle /\ FmtIdle /\ CvIdle /\ CcIdle

SpecSearch == InitSearch /\ [][SdNext]_vars

\* An argument that was given and is not empty.
sd_supplied(s) == s # None /\ Len(s) > 0

\* C30: the search-datasets tool sends its query as the catalog's 'text'
\* filter exactly when the query is non-empty and no non-empty creator,
\* provider_name or keywords is given; it always asks for public datasets
\* (isPublic = 'true'); and a non-empty keywords string is sent as a list of
\* that one string.
C30_QueryBecomesTextFilter ==
    sd_pc # "start" =>
        LET sent == sd_requests[1]
            a == sd_args
            filtered == \/ sd_supplied(a.creator)
                        \/ sd_supplied(a.provider_name)
                        \/ (a.keywords.t # "none" /\ Len(a.keywords.v) > 0)
        IN  /\ Len(sd_requests) = 1
            /\ ("text" \in DOMAIN sent) <=> (sd_supplied(a.query) /\ ~filtered)
            /\ "text" \in DOMAIN sent => sent["text"] = a.query
            /\ sent["isPublic"] = <<"t", "r", "u", "e">>
            /\ (a.keywords.t = "str" /\ Len(a.keywords.v) > 0) =>
                   sent["keywords"] = <<a.keywords.v>>

C30_Witness ==
    /\ sd_pc = "done"
    /\ sd_args.query = <<"x">>
    /\ sd_args.creator = <<>>
    /\ sd_args.provider_name = None
    /\ sd_args.keywords = [t |-> "str", v |-> <<"k">>]
    /\ "text" \notin DOMAIN sd_requests[1]
    /\ sd_requests[1]["keywords"] = <<<<"k">>>>

InitConcurrent == CcInit /\ DoiIdle /\ SanIdle /\ FlmdIdle /\ PgIdle /\ ToolIdle /\ KeyIdle /\ ClIdle /\ FmtIdle /\ CvIdle /\ SdIdle

SpecConcurrent == InitConcurrent /\ [][CcNext]_vars

\* What an invocation returns when it runs with nothing else running: a
\* function of its arguments, of the responses to its requests and of
\* whether its last request raised.
returns_alone(a, pages, raised) ==
    LET collected == Flatten([k \in 1..Len(pages) |->
                         IF pages[k].has_results THEN pages[k].results ELSE <<>>])
        last == pages[Len(pages)]
        count(resp) == IF resp.has_page_count THEN resp.pageCount ELSE 0
    IN  IF raised THEN [NoReturn EXCEPT !.kind = "error"]
        ELSE IF a.tool = "get-dataset-permissions"
        THEN [NoReturn EXCEPT !.kind = "permissions", !.results = pages[1].results]
        ELSE IF a.max_pages > 1
        THEN [kind |-> "pages", results |-> collected, total_results_fetched |-> Len(collected),
              pages_fetched |-> IF count(last) <= 1 THEN Len(pages) ELSE Len(pages) + 1,
              next_row_start |-> 0]
        ELSE [kind |-> "single", results |-> pages[1].results, total_results_fetched |-> 0,
              pages_fetched |-> 0,
              next_row_start |-> IF count(last) > 1 THEN a.row_start + a.page_size ELSE 0]

\* The k-th request of an invocation, as its arguments alone determine it.
request_alone(a, k, token) ==
    IF a.tool = "get-dataset-permissions"
    THEN [api |-> "catalog", params |-> NoParams,
          headers |-> IF token # None /\ token # <<>>
                      THEN "Authorization" :> (<<"B", "e", "a", "r", "e", "r", " ">> \o token)
                      ELSE <<>>]
    ELSE [api |-> "field_index",
          params |-> [rowStart |-> a.row_start + (k - 1) * a.page_size,
                      pageSize |-> IF a.page_size > 100 THEN 100 ELSE a.page_size],
          headers |-> <<>>]

\* C21: under every interleaving of two invocations, the credential stays
\* what the client was constructed with, each invocation's requests are those
\* its own arguments determine, and what it returns is what it would return
\* running alone on its own arguments and on the responses to its own
\* requests.
C21_InvocationsIndependent ==
    /\ cc_headers = client_headers(cc_token)
    /\ \A i \in Invocations :
          /\ \A k \in 1..Len(cc_requests[i]) :
                cc_requests[i][k] = request_alone(cc_args[i], k, cc_token)
          /\ cc_pc[i] = "done" =>
                cc_return[i] = returns_alone(cc_args[i], cc_pages[i], cc_raised[i])

C21_Witness ==
    /\ \A i \in Invocations :
          /\ cc_pc[i] = "done"
          /\ cc_args[i].tool = "search-ess-deepdive"
          /\ cc_overlapped[i]
          /\ cc_return[i].kind = "pages"
          /\ Len(cc_pages[i]) = 2
    /\ cc_return[1].results = <<"r1", "r2">>
    /\ cc_return[2].results = <<"r1", "r1">>

====
